---- MODULE Spec2Model ----
(***************************************************************************)
(* Model of advanced-python-made-2020:                                     *)
(*   - storage_policy.py: StructPolicy.dump / StructPolicy.load, the       *)
(*     big-endian binary codec of the postings mapping, and JSONPolicy,    *)
(*     the text codec;                                                     *)
(*   - task_Hubbatulin_Mark_inverted_index.py: InvertedIndex.query,        *)
(*     InvertedIndex.__eq__ and build_inverted_index;                      *)
(*   - task_khubbatulin_mark_inverted_index.py (HW2): its copy of query;   *)
(*   - asset_web_service.py: Asset, CompositeAssets and the handlers of    *)
(*     the Flask application;                                              *)
(*   - stackoverflow_analytics.py: StackoverflowAnalytics.query.           *)
(* A string is a sequence of code points, a file a sequence of bytes, and  *)
(* a postings mapping (a Python dict, which keeps insertion order) is a    *)
(* sequence of entries [term, docs] with pairwise distinct terms.          *)
(***************************************************************************)
EXTENDS Integers, Sequences, FiniteSets, TLC

VARIABLES
    documents,  \* build_inverted_index's argument: a sequence of [doc_id, text]
    term2doc,   \* InvertedIndex.term2doc
    pc,         \* the position of the program
    run,        \* which run of build_inverted_index this is (1 or 2)
    previous,   \* term2doc as the first run of build_inverted_index left it
    di,         \* build_inverted_index: index of the document being processed
    pending,    \* build_inverted_index: words of set(words.split()) not yet iterated
    word,       \* build_inverted_index: the loop variable word
    file,       \* the content of the index file
    cut,        \* how many bytes were removed from the end of the file
    loaded,     \* the outcome of StructPolicy.load: [ok, mapping]
    words,      \* InvertedIndex.query's argument
    answer,     \* InvertedIndex.query's result
    calls,      \* the calls of InvertedIndex.query in progress on the loaded index
    compared,   \* the last call of InvertedIndex.__eq__: [other, equal]
    bank,       \* CompositeAssets._asset_collection
    contained,  \* the last call of CompositeAssets.contains: [asset, result]
    response,   \* the last reply of the web service: [body, status]
    inflight,   \* the requests being handled: request -> [pc, asset]
    word2top,   \* StackoverflowAnalytics.word2top
    top,        \* the last call of StackoverflowAnalytics.query
    variant     \* the answer of the KHUBBATULIN HW2 copy of InvertedIndex.query

\* the state of the web service's handlers and of the other scripts
scripts == <<response, inflight, word2top, top, variant>>

\* the state outside the index built, dumped and loaded by one caller
others == <<calls, compared, bank, contained, scripts>>

vars == <<documents, term2doc, pc, run, previous, di, pending, word,
          file, cut, loaded, words, answer, others>>

----------------------------------------------------------------------------
(* Bounds of the model. *)

MaxTerms == 2

MaxIds == 2

MaxQueryIds == 3

MaxQuery == 2

MaxDocs == 2

MaxChars == 3

----------------------------------------------------------------------------
(* Sequences and Python dicts. *)

Range(s) == {s[i] : i \in 1..Len(s)}

Prefix(s, n) == [i \in 1..n |-> s[i]]

\* the concatenation of the sequences of ss, halving so that a long ss (a key
\* of 32768 characters) stays within the evaluator's stack
RECURSIVE Flatten(_)
Flatten(ss) ==
    IF Len(ss) = 0 THEN <<>>
    ELSE IF Len(ss) = 1 THEN ss[1]
    ELSE LET half == Len(ss) \div 2
         IN  Flatten(SubSeq(ss, 1, half)) \o Flatten(SubSeq(ss, half + 1, Len(ss)))

\* dict.keys()
Keys(m) == {m[i].term : i \in 1..Len(m)}

\* key in dict
Has(m, key) == \E i \in 1..Len(m) : m[i].term = key

\* dict[key], for a key of the dict
Get(m, key) == m[CHOOSE i \in 1..Len(m) : m[i].term = key].docs

\* dict[key] = val: a new key goes last, an old key keeps its place
Put(m, key, val) ==
    IF Has(m, key)
    THEN [i \in 1..Len(m) |-> IF m[i].term = key
                              THEN [term |-> key, docs |-> val] ELSE m[i]]
    ELSE Append(m, [term |-> key, docs |-> val])

\* a variant that also compares the order in which the keys were inserted
DictEqOrdered(p, q) == p = q

\* dict == dict: the same keys with equal values, whatever the insertion order
DictEq(p, q) ==
    /\ Keys(p) = Keys(q)
    /\ \A k \in Keys(p) : Get(p, k) = Get(q, k)

----------------------------------------------------------------------------
(* struct.pack / struct.unpack, formats '>h' and '>i'; str.encode and      *)
(* bytes.decode for 'utf-8'.  A failing call (struct.error,                *)
(* UnicodeError) is ok = FALSE.                                            *)

Failed == [ok |-> FALSE, bytes |-> <<>>]

\* a variant that writes the low byte first ('<h')
pack_h_little(v) ==
    IF v < -32768 \/ v > 32767 THEN [ok |-> FALSE, bytes |-> <<>>]
    ELSE LET u == (v + 65536) % 65536
         IN  [ok |-> TRUE, bytes |-> <<u % 256, u \div 256>>]

\* a variant that keeps the low 16 bits of a number that does not fit
pack_h_wraps(v) ==
    LET u == ((v % 65536) + 65536) % 65536
    IN  [ok |-> TRUE, bytes |-> <<u \div 256, u % 256>>]

\* struct.pack('>h', v)
pack_h(v) ==
    IF v < -32768 \/ v > 32767 THEN Failed
    ELSE LET u == (v + 65536) % 65536
         IN  [ok |-> TRUE, bytes |-> <<u \div 256, u % 256>>]

\* a variant that reads the two bytes as an unsigned number ('>H')
unpack_h_unsigned(b) == b[1] * 256 + b[2]

\* struct.unpack('>h', b)[0]
unpack_h(b) ==
    LET u == b[1] * 256 + b[2] IN IF u >= 32768 THEN u - 65536 ELSE u

\* the four bytes, most significant first, of a value of 0..2^31-1
bytes_i(u) ==
    <<u \div 16777216, (u \div 65536) % 256, (u \div 256) % 256, u % 256>>

\* struct.pack('>i', v): two's complement, a negative v being the bitwise
\* complement of -v - 1
pack_i(v) ==
    IF v < -2147483647 - 1 \/ v > 2147483647 THEN Failed
    ELSE IF v >= 0 THEN [ok |-> TRUE, bytes |-> bytes_i(v)]
    ELSE [ok |-> TRUE,
          bytes |-> [i \in 1..4 |-> 255 - bytes_i(-v - 1)[i]]]

\* struct.unpack('>i', b)[0]
unpack_i(b) ==
    IF b[1] < 128
    THEN b[1] * 16777216 + b[2] * 65536 + b[3] * 256 + b[4]
    ELSE -((255 - b[1]) * 16777216 + (255 - b[2]) * 65536
           + (255 - b[3]) * 256 + (255 - b[4])) - 1

\* the UTF-8 bytes of one code point
encode_char(c) ==
    IF c < 128 THEN <<c>>
    ELSE IF c < 2048 THEN <<192 + (c \div 64), 128 + (c % 64)>>
    ELSE IF c < 65536
         THEN <<224 + (c \div 4096), 128 + ((c \div 64) % 64), 128 + (c % 64)>>
    ELSE <<240 + (c \div 262144), 128 + ((c \div 4096) % 64),
           128 + ((c \div 64) % 64), 128 + (c % 64)>>

\* key.encode('utf-8'): a lone surrogate cannot be encoded
encode(key) ==
    IF \E i \in 1..Len(key) : key[i] \in 55296..57343 THEN Failed
    ELSE [ok |-> TRUE,
          bytes |-> Flatten([i \in 1..Len(key) |-> encode_char(key[i])])]

IsCont(b) == b \in 128..191

\* bin_str.decode('utf-8'): strict; [ok, str]
RECURSIVE decode(_)
decode(b) ==
    LET bad == [ok |-> FALSE, str |-> <<>>]
        then(c, n) ==
            LET rest == decode(SubSeq(b, n + 1, Len(b)))
            IN  IF rest.ok THEN [ok |-> TRUE, str |-> <<c>> \o rest.str] ELSE bad
    IN  IF b = <<>> THEN [ok |-> TRUE, str |-> <<>>]
        ELSE IF b[1] < 128 THEN then(b[1], 1)
        ELSE IF b[1] \in 194..223
             THEN IF Len(b) >= 2 /\ IsCont(b[2])
                  THEN then((b[1] - 192) * 64 + (b[2] - 128), 2)
                  ELSE bad
        ELSE IF b[1] \in 224..239
             THEN IF /\ Len(b) >= 3 /\ IsCont(b[2]) /\ IsCont(b[3])
                     /\ (b[1] = 224 => b[2] >= 160)
                     /\ (b[1] = 237 => b[2] <= 159)
                  THEN then((b[1] - 224) * 4096 + (b[2] - 128) * 64 + (b[3] - 128), 3)
                  ELSE bad
        ELSE IF b[1] \in 240..244
             THEN IF /\ Len(b) >= 4 /\ IsCont(b[2]) /\ IsCont(b[3]) /\ IsCont(b[4])
                     /\ (b[1] = 240 => b[2] >= 144)
                     /\ (b[1] = 244 => b[2] <= 143)
                  THEN then((b[1] - 240) * 262144 + (b[2] - 128) * 4096
                            + (b[3] - 128) * 64 + (b[4] - 128), 4)
                  ELSE bad
        ELSE bad

----------------------------------------------------------------------------
(* StructPolicy.dump: [ok, bytes], bytes being what was written to the     *)
(* file, also when a later struct.pack raised.                             *)

\* for doc_id in word_to_docs_mapping[key]: file.write(struct.pack('>h', doc_id))
RECURSIVE dump_doc_ids(_)
dump_doc_ids(docs) ==
    IF docs = <<>> THEN [ok |-> TRUE, bytes |-> <<>>]
    ELSE LET doc_id_bin == pack_h(Head(docs))
         IN  IF ~doc_id_bin.ok THEN Failed
             ELSE LET rest == dump_doc_ids(Tail(docs))
                  IN  [ok |-> rest.ok, bytes |-> doc_id_bin.bytes \o rest.bytes]

\* one iteration of "for key in word_to_docs_mapping"
dump_key(entry) ==
    LET key_encoded == encode(entry.term)
        key_len_bin == pack_h(Len(key_encoded.bytes))
        doc_len_bin == pack_h(Len(entry.docs))
        ids         == dump_doc_ids(entry.docs)
    IN  IF ~key_encoded.ok \/ ~key_len_bin.ok THEN Failed
        ELSE IF ~doc_len_bin.ok
             THEN [ok |-> FALSE, bytes |-> key_len_bin.bytes \o key_encoded.bytes]
        ELSE [ok |-> ids.ok,
              bytes |-> key_len_bin.bytes \o key_encoded.bytes
                        \o doc_len_bin.bytes \o ids.bytes]

RECURSIVE dump_keys(_)
dump_keys(m) ==
    IF m = <<>> THEN [ok |-> TRUE, bytes |-> <<>>]
    ELSE LET first == dump_key(Head(m))
         IN  IF ~first.ok THEN first
             ELSE LET rest == dump_keys(Tail(m))
                  IN  [ok |-> rest.ok, bytes |-> first.bytes \o rest.bytes]

\* a variant that writes the count of terms with '>h', as the other lengths
dump_count_h(word_to_docs_mapping) ==
    LET count == pack_h(Len(word_to_docs_mapping))
        keys  == dump_keys(word_to_docs_mapping)
    IN  IF ~count.ok THEN Failed
        ELSE [ok |-> keys.ok, bytes |-> count.bytes \o keys.bytes]

\* StructPolicy.dump
dump(word_to_docs_mapping) ==
    LET count == pack_i(Len(word_to_docs_mapping))
        keys  == dump_keys(word_to_docs_mapping)
    IN  IF ~count.ok THEN Failed
        ELSE [ok |-> keys.ok, bytes |-> count.bytes \o keys.bytes]

----------------------------------------------------------------------------
(* StructPolicy.load: [ok, mapping]; ok = FALSE when struct.unpack,        *)
(* file.read or decode raised.                                             *)

NoMapping == [ok |-> FALSE, mapping |-> <<>>]

\* file.read(n) at offset pos (0-based): at most n bytes, fewer at the end
read(bytes, pos, n) ==
    SubSeq(bytes, pos + 1, IF pos + n > Len(bytes) THEN Len(bytes) ELSE pos + n)

\* list(struct.unpack('>' + str(index_len) + 'h', decoding_list))
unpack_ids(decoding_list, index_len) ==
    [i \in 1..index_len |-> unpack_h(SubSeq(decoding_list, 2 * i - 1, 2 * i))]

\* the body of "for _ in range(count)", count iterations from offset pos
RECURSIVE load_keys(_, _, _, _)
load_keys(bytes, pos, count, word_to_docs_mapping) ==
    IF count <= 0 THEN [ok |-> TRUE, mapping |-> word_to_docs_mapping]
    ELSE
    LET key_len_pack == read(bytes, pos, 2)
    IN  IF Len(key_len_pack) # 2 THEN NoMapping
        ELSE
        LET key_len      == unpack_h(key_len_pack)
            decoding_str == read(bytes, pos + 2, key_len)
        IN  IF key_len < 0 \/ Len(decoding_str) # key_len THEN NoMapping
            ELSE
            LET key            == decode(decoding_str)
                index_len_pack == read(bytes, pos + 2 + key_len, 2)
            IN  IF ~key.ok \/ Len(index_len_pack) # 2 THEN NoMapping
                ELSE
                LET index_len     == unpack_h(index_len_pack)
                    decoding_list == read(bytes, pos + 4 + key_len, 2 * index_len)
                IN  IF index_len < 0 \/ Len(decoding_list) # 2 * index_len
                    THEN NoMapping
                    ELSE load_keys(bytes, pos + 4 + key_len + 2 * index_len,
                                   count - 1,
                                   Put(word_to_docs_mapping, key.str,
                                       unpack_ids(decoding_list, index_len)))

\* a variant that answers a stream it cannot read with an empty mapping
load_lenient(bytes) ==
    LET count_bin == read(bytes, 0, 4)
        lenient(m) == IF m.ok THEN m ELSE [ok |-> TRUE, mapping |-> <<>>]
    IN  IF Len(count_bin) # 4 THEN lenient(NoMapping)
        ELSE lenient(load_keys(bytes, 4, unpack_i(count_bin), <<>>))

\* a variant that refuses a file with bytes after its last entry
load_to_end(bytes) ==
    LET count_bin == read(bytes, 0, 4)
        result == IF Len(count_bin) # 4 THEN NoMapping
                  ELSE load_keys(bytes, 4, unpack_i(count_bin), <<>>)
    IN  IF result.ok /\ Len(dump(result.mapping).bytes) < Len(bytes)
        THEN NoMapping
        ELSE result

\* StructPolicy.load
load(bytes) ==
    LET count_bin == read(bytes, 0, 4)
    IN  IF Len(count_bin) # 4 THEN NoMapping
        ELSE load_keys(bytes, 4, unpack_i(count_bin), <<>>)

----------------------------------------------------------------------------
(* InvertedIndex.query *)

\* a variant that sorts in descending order
sorted_reverse(S) ==
    LET RECURSIVE desc(_)
        desc(T) == IF T = {} THEN <<>>
                   ELSE LET x == CHOOSE y \in T : \A z \in T : z <= y
                        IN  <<x>> \o desc(T \ {x})
    IN  desc(S)

\* sorted(list(doc_id)): the elements in ascending order
sorted(S) ==
    LET RECURSIVE asc(_)
        asc(T) == IF T = {} THEN <<>>
                  ELSE LET x == CHOOSE y \in T : \A z \in T : y <= z
                       IN  <<x>> \o asc(T \ {x})
    IN  asc(S)

\* a variant that unites instead of intersecting
update_only(doc_id, postings) == doc_id \cup Range(postings)

\* a variant that removes the ids of the postings (difference_update)
difference_update(doc_id, postings) == doc_id \ Range(postings)

\* doc_id.intersection_update(set(self.term2doc[word]))
intersection_update(doc_id, postings) == doc_id \cap Range(postings)

\* the loop "for word in words", from the words still to come
RECURSIVE query_loop(_, _, _, _)
query_loop(m, ws, doc_id, first) ==
    IF ws = <<>> THEN sorted(doc_id)
    ELSE IF ~Has(m, Head(ws)) THEN <<>>
    ELSE IF first
         THEN query_loop(m, Tail(ws), doc_id \cup Range(Get(m, Head(ws))), FALSE)
    ELSE query_loop(m, Tail(ws),
                    intersection_update(doc_id, Get(m, Head(ws))), FALSE)

\* a variant that skips the words the index does not hold
query_skips_absent(m, ws) ==
    query_loop(m, SelectSeq(ws, LAMBDA w : Has(m, w)), {}, TRUE)

\* a variant that takes the empty intersection to be every document
query_empty_is_all(m, ws) ==
    IF ws = <<>> THEN sorted(UNION {Range(m[i].docs) : i \in 1..Len(m)})
    ELSE query_loop(m, ws, {}, TRUE)

\* InvertedIndex.query(words)
query(m, ws) == query_loop(m, ws, {}, TRUE)

----------------------------------------------------------------------------
(* build_inverted_index *)

\* str.isspace of one character
isspace(c) ==
    c \in (9..13) \cup (28..32) \cup {133, 160, 5760} \cup (8192..8202)
          \cup {8232, 8233, 8239, 8287, 12288}

\* words.split(): the maximal runs of characters that are not whitespace
RECURSIVE split_from(_, _, _)
split_from(text, cur, out) ==
    IF text = <<>> THEN (IF cur = <<>> THEN out ELSE Append(out, cur))
    ELSE IF isspace(Head(text))
         THEN split_from(Tail(text), <<>>, IF cur = <<>> THEN out ELSE Append(out, cur))
    ELSE split_from(Tail(text), Append(cur, Head(text)), out)

split(text) == split_from(text, <<>>, <<>>)

\* index.term2doc[word].append(doc_id), the defaultdict making a missing list
append(m, key, doc_id) ==
    Put(m, key, Append(IF Has(m, key) THEN Get(m, key) ELSE <<>>, doc_id))

\* if word not in index.term2doc.keys(): index.term2doc[word].append(doc_id)
line166(m, key, doc_id) ==
    IF ~Has(m, key) THEN append(m, key, doc_id) ELSE m

\* a variant that appends without the membership test
line168_unchecked(m, key, doc_id) == append(m, key, doc_id)

\* a variant that records a document only for a term it is the first to hold
line168_skipped(m, key, doc_id) == m

\* a variant that puts the new id first in the list
line168_insert_first(m, key, doc_id) ==
    LET postings == IF Has(m, key) THEN Get(m, key) ELSE <<>>
    IN  IF doc_id \notin Range(postings)
        THEN Put(m, key, <<doc_id>> \o postings) ELSE m

\* if doc_id not in index.term2doc[word]: index.term2doc[word].append(doc_id)
\* (reading index.term2doc[word] makes a missing list)
line168(m, key, doc_id) ==
    LET postings == IF Has(m, key) THEN Get(m, key) ELSE <<>>
    IN  IF doc_id \notin Range(postings) THEN append(m, key, doc_id)
        ELSE Put(m, key, postings)

----------------------------------------------------------------------------
(* The inputs. *)

\* the code points of 'a', of the Cyrillic letter ya (two bytes in UTF-8)
\* and of the space
TextChars == {97, 1103, 32}

\* document ids, as load_documents reads them: in file order, not sorted
DocIdSet == {123, 2, 5}

\* terms of the codec's mappings: the empty string, 'a' and a two-letter term
CodecTerms == {<<>>, <<97>>, <<1103, 97>>}

\* document ids at the ends and in the middle of the int16 range
CodecIds == {-32768, -1, 255, 32767}

QueryTerms == {<<97>>, <<1103>>, <<97, 1103>>}

QueryIds == {2, 5, 37}

\* the words asked of an index built from texts over TextChars
BuiltTerms == {<<97>>, <<1103>>}

Strings(chars, n) == UNION {[1..k -> chars] : k \in 0..n}

\* the sequences of k strings over chars of total length at most budget
RECURSIVE Budgeted(_, _, _)
Budgeted(k, budget, chars) ==
    IF k = 0 THEN {<<>>}
    ELSE UNION {{<<s>> \o rest : rest \in Budgeted(k - 1, budget - Len(s), chars)} :
                s \in Strings(chars, budget)}

InjectiveSeqs(S, n) ==
    UNION {{s \in [1..k -> S] : \A i, j \in 1..k : i # j => s[i] # s[j]} :
           k \in 0..n}

\* the dicts of at most maxTerms terms holding at most maxIds ids in all
Mappings(terms, ids, maxTerms, maxIds) ==
    UNION {{[i \in 1..Len(ts) |-> [term |-> ts[i], docs |-> ls[i]]] :
            ls \in Budgeted(Len(ts), maxIds, ids)} :
           ts \in InjectiveSeqs(terms, maxTerms)}

\* the dicts id -> text of at most MaxDocs documents, MaxChars characters in all
DocumentMappings ==
    UNION {{[i \in 1..Len(ids) |-> [doc_id |-> ids[i], text |-> ts[i]]] :
            ts \in Budgeted(Len(ids), MaxChars, TextChars)} :
           ids \in InjectiveSeqs(DocIdSet, MaxDocs)}

WordLists(terms) == Strings(terms, MaxQuery)

----------------------------------------------------------------------------
(* The state machine. *)

Idle ==
    /\ run = 1 /\ previous = <<>> /\ di = 0 /\ pending = {} /\ word = <<>>
    /\ file = <<>> /\ cut = 0 /\ loaded = NoMapping
    /\ words = <<>> /\ answer = <<>>
    /\ calls = <<>> /\ compared = <<>> /\ bank = <<>> /\ contained = <<>>
    /\ response = <<>> /\ inflight = <<>> /\ word2top = <<>> /\ top = <<>>
    /\ variant = <<>>

\* build_inverted_index is called on a dict of documents
Init ==
    /\ documents \in DocumentMappings
    /\ term2doc = <<>>
    /\ pc = "for"
    /\ Idle

\* an index holding some postings mapping is about to be dumped
InitCodec ==
    /\ documents = <<>>
    /\ term2doc \in Mappings(CodecTerms, CodecIds, MaxTerms, MaxIds)
    /\ pc = "ready"
    /\ Idle

\* an index holding some postings mapping is about to be queried
InitQuery ==
    /\ documents = <<>>
    /\ term2doc \in Mappings(QueryTerms, QueryIds, MaxTerms, MaxQueryIds)
    /\ pc = "ready"
    /\ Idle

\* "for doc_id, words in documents.items()": the next document, or the end
NextDocument ==
    /\ pc = "for" /\ pending = {}
    /\ IF di < Len(documents)
       THEN /\ di' = di + 1
            /\ pending' = Range(split(documents[di + 1].text))
            /\ pc' = "for"
       ELSE /\ pc' = "ready"
            /\ UNCHANGED <<di, pending>>
    /\ UNCHANGED <<documents, term2doc, run, previous, word, file, cut, loaded,
                   words, answer, others>>

\* "for word in set(words.split())": a set yields its elements in an order
\* that depends on the hashes of the strings, which change from one process
\* to the next
NextWord ==
    /\ pc = "for"
    /\ \E w \in pending :
        /\ word' = w
        /\ pending' = pending \ {w}
    /\ pc' = "line166"
    /\ UNCHANGED <<documents, term2doc, run, previous, di, file, cut, loaded,
                   words, answer, others>>

Line166 ==
    /\ pc = "line166"
    /\ term2doc' = line166(term2doc, word, documents[di].doc_id)
    /\ pc' = "line168"
    /\ UNCHANGED <<documents, run, previous, di, pending, word, file, cut,
                   loaded, words, answer, others>>

Line168 ==
    /\ pc = "line168"
    /\ term2doc' = line168(term2doc, word, documents[di].doc_id)
    /\ pc' = "for"
    /\ UNCHANGED <<documents, run, previous, di, pending, word, file, cut,
                   loaded, words, answer, others>>

\* build_inverted_index is run again on the same documents
Rebuild ==
    /\ pc = "ready" /\ run = 1 /\ documents # <<>>
    /\ run' = 2
    /\ previous' = term2doc
    /\ term2doc' = <<>>
    /\ di' = 0
    /\ pc' = "for"
    /\ UNCHANGED <<documents, pending, word, file, cut, loaded, words, answer, others>>

\* InvertedIndex.dump
DumpIndex ==
    /\ pc \in {"ready", "queried"}
    /\ LET written == dump(term2doc)
       IN  /\ file' = written.bytes
           /\ pc' = IF written.ok THEN "dumped" ELSE "dump_failed"
    /\ UNCHANGED <<documents, term2doc, run, previous, di, pending, word, cut,
                   loaded, words, answer, others>>

\* the file loses its last k bytes
TruncateFile ==
    /\ pc = "dumped"
    /\ \E k \in 1..Len(file) :
        /\ file' = Prefix(file, Len(file) - k)
        /\ cut' = k
    /\ pc' = "truncated"
    /\ UNCHANGED <<documents, term2doc, run, previous, di, pending, word,
                   loaded, words, answer, others>>

\* InvertedIndex.load, into a new index
LoadIndex ==
    /\ pc \in {"dumped", "truncated", "corrupted", "extended"}
    /\ LET word_to_docs_mapping == load(file)
       IN  /\ loaded' = word_to_docs_mapping
           /\ pc' = IF word_to_docs_mapping.ok THEN "loaded" ELSE "load_failed"
    /\ UNCHANGED <<documents, term2doc, run, previous, di, pending, word, file,
                   cut, words, answer, others>>

\* InvertedIndex.query
QueryIndex(terms) ==
    /\ pc = "ready"
    /\ \E ws \in WordLists(terms) :
        /\ words' = ws
        /\ answer' = query(term2doc, ws)
    /\ pc' = "queried"
    /\ UNCHANGED <<documents, term2doc, run, previous, di, pending, word, file,
                   cut, loaded, others>>

Next ==
    \/ NextDocument
    \/ NextWord
    \/ Line166
    \/ Line168
    \/ DumpIndex
    \/ LoadIndex
    \/ QueryIndex(BuiltTerms)

Spec == Init /\ [][Next]_vars

NextCodec ==
    \/ DumpIndex
    \/ TruncateFile
    \/ LoadIndex

SpecCodec == InitCodec /\ [][NextCodec]_vars

NextQuery == QueryIndex(QueryTerms)

NextRebuild ==
    \/ NextDocument
    \/ NextWord
    \/ Line166
    \/ Line168
    \/ Rebuild

SpecRebuild == Init /\ [][NextRebuild]_vars

SpecQuery == InitQuery /\ [][NextQuery]_vars

----------------------------------------------------------------------------
(* The properties. *)

\* the '>h' and '>i' fields of the file can hold the mapping
InBounds(m) ==
    /\ Len(m) <= 2147483647
    /\ \A i \in 1..Len(m) :
        /\ encode(m[i].term).ok
        /\ Len(encode(m[i].term).bytes) <= 32767
        /\ Len(m[i].docs) <= 32767
        /\ \A j \in 1..Len(m[i].docs) : m[i].docs[j] \in -32768..32767

\* C1: StructPolicy.load of the file StructPolicy.dump wrote for an in-bounds
\* mapping succeeds and returns a mapping with the same terms and, for each
\* term, the same document ids in the same order; the dump itself succeeds.
C1_RoundTrip ==
    InBounds(term2doc) =>
        /\ pc # "dump_failed"
        /\ (cut = 0 /\ pc \in {"loaded", "load_failed"}) =>
              /\ loaded.ok
              /\ Keys(loaded.mapping) = Keys(term2doc)
              /\ \A k \in Keys(term2doc) :
                    Get(loaded.mapping, k) = Get(term2doc, k)

\* a mapping of two terms, one of them with a two-byte letter, and a negative
\* document id has been dumped and loaded
C1_Witness ==
    /\ pc = "loaded" /\ cut = 0
    /\ Len(term2doc) = 2
    /\ \E i \in 1..2 : 1103 \in Range(term2doc[i].term)
    /\ \E i \in 1..2 : \E d \in Range(term2doc[i].docs) : d < 0

AllPresent == \A i \in 1..Len(words) : Has(term2doc, words[i])

\* C2: for a non-empty list of terms all present in the mapping, query
\* returns exactly the document ids in the postings list of every term.
C2_QueryIsIntersection ==
    (pc = "queried" /\ words # <<>> /\ AllPresent) =>
        Range(answer) =
            {d \in UNION {Range(term2doc[i].docs) : i \in 1..Len(term2doc)} :
                \A i \in 1..Len(words) : d \in Range(Get(term2doc, words[i]))}

\* two different present terms whose lists share some ids but not all
C2_Witness ==
    /\ pc = "queried" /\ Len(words) = 2 /\ AllPresent
    /\ words[1] # words[2]
    /\ answer # <<>>
    /\ Range(answer) # Range(Get(term2doc, words[1]))

\* C3: a list of terms with an absent term, at whatever position, gives the
\* empty list.
C3_AbsentTermGivesEmpty ==
    (pc = "queried" /\ ~AllPresent) => answer = <<>>

\* the absent term comes second, after a present term with documents
C3_Witness ==
    /\ pc = "queried" /\ Len(words) = 2
    /\ Has(term2doc, words[1]) /\ Get(term2doc, words[1]) # <<>>
    /\ ~Has(term2doc, words[2])

\* C4: the list query returns is in strictly ascending order of document id.
C4_AnswerStrictlyAscending ==
    pc = "queried" =>
        \A i \in 1..(Len(answer) - 1) : answer[i] < answer[i + 1]

\* two ids are returned for a term whose postings list is not ascending
C4_Witness ==
    /\ pc = "queried" /\ Len(words) = 1 /\ AllPresent
    /\ Len(answer) = 2
    /\ Get(term2doc, words[1])[1] > Get(term2doc, words[1])[2]

\* build_inverted_index has returned
Built == pc \notin {"for", "line166", "line168"}

\* t is a whitespace-delimited token of text: a maximal run of characters
\* that are not whitespace
IsToken(t, text) ==
    \E i, j \in 1..Len(text) :
        /\ i <= j
        /\ t = SubSeq(text, i, j)
        /\ \A k \in i..j : ~isspace(text[k])
        /\ i = 1 \/ isspace(text[i - 1])
        /\ j = Len(text) \/ isspace(text[j + 1])

\* the pieces of a text: its non-empty substrings
Pieces(text) ==
    {SubSeq(text, i, j) : i, j \in 1..Len(text)} \ {<<>>}

\* C5: after build_inverted_index(D), d is in term2doc[t] if and only if t is
\* a whitespace-delimited token of D[d]; no term maps to an empty list.
C5_BuildPostings ==
    Built =>
        /\ \A i \in 1..Len(term2doc) :
              /\ term2doc[i].docs # <<>>
              /\ Range(term2doc[i].docs) \subseteq
                    {documents[n].doc_id : n \in 1..Len(documents)}
        /\ \A n \in 1..Len(documents) :
              \A t \in Keys(term2doc) \cup Pieces(documents[n].text) :
                  (Has(term2doc, t)
                      /\ documents[n].doc_id \in Range(Get(term2doc, t)))
                  <=> IsToken(t, documents[n].text)

\* built from a document of whitespace only and a document with a word
C5_Witness ==
    /\ pc = "ready" /\ Len(documents) = 2
    /\ \E n \in 1..2 : documents[n].text # <<>>
                       /\ \A k \in 1..Len(documents[n].text) :
                             isspace(documents[n].text[k])
    /\ term2doc # <<>>

\* C6: in every state of build_inverted_index and in its result, no postings
\* list holds the same document id twice.
C6_NoDuplicateIds ==
    \A i \in 1..Len(term2doc) :
        \A j, k \in 1..Len(term2doc[i].docs) :
            j # k => term2doc[i].docs[j] # term2doc[i].docs[k]

\* both append checks have run for a term first seen in a document that
\* repeats it
C6_Witness ==
    /\ pc = "for" /\ di >= 1
    /\ Len(split(documents[di].text)) = 2
    /\ split(documents[di].text)[1] = split(documents[di].text)[2]
    /\ word = split(documents[di].text)[1]
    /\ Has(term2doc, word)
    /\ Get(term2doc, word) = <<documents[di].doc_id>>

\* the place of document d in the iteration of documents.items()
Place(d) == CHOOSE n \in 1..Len(documents) : documents[n].doc_id = d

\* C7: in every postings list the ids stand in the order in which their
\* documents were iterated: d1 precedes d2 iff document d1 came before d2.
C7_DocumentOrder ==
    \A i \in 1..Len(term2doc) :
        LET docs == term2doc[i].docs
        IN  /\ Range(docs) \subseteq {documents[n].doc_id : n \in 1..Len(documents)}
            /\ \A j, k \in 1..Len(docs) :
                  j < k <=> Place(docs[j]) < Place(docs[k])

\* a postings list of two ids that is not in numeric order
C7_Witness ==
    /\ pc = "ready"
    /\ \E i \in 1..Len(term2doc) :
          /\ Len(term2doc[i].docs) = 2
          /\ term2doc[i].docs[1] > term2doc[i].docs[2]

\* C8: two runs of build_inverted_index on the same documents give the same
\* terms in the same order with the same id lists, and so the same dump.
C8_RebuildIdentical ==
    (run = 2 /\ pc = "ready") =>
        /\ term2doc = previous
        /\ dump(term2doc).bytes = dump(previous).bytes

\* C9: the index built from no documents answers [] to every query, its dump
\* is the four bytes of N = 0, and loading that file gives an empty mapping.
C9_EmptyCorpus ==
    (documents = <<>> /\ Built) =>
        /\ term2doc = <<>>
        /\ pc \notin {"dump_failed", "load_failed"}
        /\ answer = <<>>
        /\ pc \in {"dumped", "loaded"} => file = <<0, 0, 0, 0>>
        /\ pc = "loaded" => loaded.ok /\ loaded.mapping = <<>>

\* the empty index was built, queried for a term, dumped and loaded
C9_Witness ==
    /\ documents = <<>> /\ pc = "loaded"
    /\ words # <<>>
    /\ term2doc = <<>>

\* C10: load fails on a dumped file that lost its last k bytes, 1 <= k <= the
\* file's length, and returns no mapping.
C10_TruncatedLoadFails ==
    (cut >= 1 /\ pc \in {"loaded", "load_failed"}) =>
        /\ pc = "load_failed"
        /\ ~loaded.ok
        /\ loaded.mapping = <<>>

\* the file lost exactly its last entry, so that it ends where an entry ends
C10_Witness ==
    /\ pc = "load_failed" /\ cut >= 1
    /\ Len(term2doc) = 2
    /\ cut = Len(dump_key(term2doc[2]).bytes)

----------------------------------------------------------------------------
(* Byte streams whose counts and lengths do not fit what follows them. *)

\* the counts and lengths a stream may declare in place of the dumped ones
Declared == {-1, 0, 1, 2, 3, 32767}

\* the bytes StructPolicy.dump writes for one entry: two '>h' fields, the
\* key and the ids
EntrySize(entry) == 4 + Len(encode(entry.term).bytes) + 2 * Len(entry.docs)

\* where the entry after the first n entries starts in the dumped file
RECURSIVE EntryOffset(_, _)
EntryOffset(m, n) ==
    IF n = 0 THEN 4 ELSE EntryOffset(m, n - 1) + EntrySize(m[n])

\* the count and length fields of the dumped file: the '>i' count, and the
\* '>h' key_len and doc_len of every entry
Fields(m) ==
    {[pos |-> 0, width |-> 4]}
    \cup {[pos |-> EntryOffset(m, i - 1), width |-> 2] : i \in 1..Len(m)}
    \cup {[pos |-> EntryOffset(m, i - 1) + 2 + Len(encode(m[i].term).bytes),
           width |-> 2] : i \in 1..Len(m)}

\* bytes with the field at pos replaced
Overwrite(bytes, pos, field) ==
    [i \in 1..Len(bytes) |->
        IF i > pos /\ i <= pos + Len(field) THEN field[i - pos] ELSE bytes[i]]

\* the file StructPolicy.load is given declares another count or length than
\* the one that was dumped
CorruptLength ==
    /\ pc = "dumped"
    /\ \E f \in Fields(term2doc), v \in Declared :
        LET field == IF f.width = 4 THEN pack_i(v).bytes ELSE pack_h(v).bytes
        IN  /\ file' = Overwrite(file, f.pos, field)
            /\ file' # file
    /\ pc' = "corrupted"
    /\ UNCHANGED <<documents, term2doc, run, previous, di, pending, word, cut,
                   loaded, words, answer, others>>

NextStream ==
    \/ DumpIndex
    \/ CorruptLength
    \/ LoadIndex

SpecStream == InitCodec /\ [][NextStream]_vars

\* the signed big-endian number in the two bytes after pos
Field16(bytes, pos) ==
    LET u == bytes[pos + 1] * 256 + bytes[pos + 2]
    IN  IF u >= 32768 THEN u - 65536 ELSE u

\* the signed big-endian number in the first four bytes
Field32(bytes) ==
    LET low == (bytes[2] * 256 + bytes[3]) * 256 + bytes[4]
    IN  IF bytes[1] >= 128 THEN (bytes[1] - 256) * 16777216 + low
        ELSE bytes[1] * 16777216 + low

\* reading the layout from pos with count entries still declared, a count or
\* a length asks for more bytes than the stream has left
RECURSIVE OverrunsFrom(_, _, _)
OverrunsFrom(bytes, pos, count) ==
    IF count <= 0 THEN FALSE
    ELSE IF Len(bytes) - pos < 2 THEN TRUE
    ELSE LET L == Field16(bytes, pos)
             after_key == pos + 2 + L
         IN  IF L < 0 THEN FALSE
             ELSE IF after_key > Len(bytes) THEN TRUE
             ELSE IF Len(bytes) - after_key < 2 THEN TRUE
             ELSE LET M == Field16(bytes, after_key)
                      after_ids == after_key + 2 + 2 * M
                  IN  IF M < 0 THEN FALSE
                      ELSE IF after_ids > Len(bytes) THEN TRUE
                      ELSE OverrunsFrom(bytes, after_ids, count - 1)

Overruns(bytes) ==
    /\ Len(bytes) >= 4
    /\ OverrunsFrom(bytes, 4, Field32(bytes))

\* C11: StructPolicy.load fails, and returns no mapping, on every byte stream
\* in which the declared term count, a declared term byte length or a declared
\* posting-list length asks for more bytes than remain in the stream.
C11_OverrunFails ==
    (pc \in {"loaded", "load_failed"} /\ Overruns(file)) =>
        /\ pc = "load_failed"
        /\ loaded = NoMapping

\* a dumped file of two entries, whole, whose count was raised
C11_Witness ==
    /\ pc = "load_failed"
    /\ Len(term2doc) = 2
    /\ Len(file) = EntryOffset(term2doc, 2)
    /\ Field32(file) = 3
    /\ Overwrite(file, 0, pack_i(2).bytes) = dump(term2doc).bytes
    /\ Overruns(file)

----------------------------------------------------------------------------
(* Mappings that the '>h' fields of the file cannot hold. *)

\* document ids at both ends of the signed 16-bit range, and one past them
WideIds == {-32769, -32768, 32767, 32768}

Repeat(c, n) == [i \in 1..n |-> c]

\* keys of 32768 bytes: 32768 one-byte characters, 16384 two-byte characters
LongKeys == {Repeat(97, 32768), Repeat(1103, 16384)}

\* a postings list one longer than a '>h' doc_len can count
LongList == Repeat(5, 32768)

\* the mappings of ShortMappings with the last key or the last list made long
LongVariants(ShortMappings) ==
    UNION {{[m EXCEPT ![Len(m)].term = key] : key \in LongKeys}
           \cup {[m EXCEPT ![Len(m)].docs = LongList]} :
           m \in {n \in ShortMappings : Len(n) >= 1}}

DumpErrorMappings ==
    Mappings(BuiltTerms, WideIds, MaxTerms, MaxIds)
    \cup LongVariants(Mappings(BuiltTerms, {5}, MaxTerms, MaxIds))

\* an index holding some mapping, in or out of the file's bounds, is about to
\* be dumped
InitDumpErrors ==
    /\ documents = <<>>
    /\ term2doc \in DumpErrorMappings
    /\ pc = "ready"
    /\ Idle

NextDumpErrors == DumpIndex

SpecDumpErrors == InitDumpErrors /\ [][NextDumpErrors]_vars

\* len(key.encode('utf-8')) of a key without surrogates, counted per character
Utf8Length(key) ==
    Len(key)
    + Cardinality({i \in 1..Len(key) : key[i] >= 128})
    + Cardinality({i \in 1..Len(key) : key[i] >= 2048})
    + Cardinality({i \in 1..Len(key) : key[i] >= 65536})

OutOfBounds(m) ==
    \E i \in 1..Len(m) :
        \/ Utf8Length(m[i].term) > 32767
        \/ Len(m[i].docs) > 32767
        \/ \E j \in 1..Len(m[i].docs) : m[i].docs[j] < -32768 \/ m[i].docs[j] > 32767

\* C12: StructPolicy.dump fails whenever the mapping holds a term of more than
\* 32767 UTF-8 bytes, a postings list of more than 32767 ids or a document id
\* outside the signed 16-bit range; it never reports success for such a mapping.
C12_OutOfBoundsDumpFails ==
    (pc \in {"dumped", "dump_failed"} /\ OutOfBounds(term2doc)) =>
        pc = "dump_failed"

\* the key has fewer than 32768 characters but 32768 bytes, and nothing else
\* is out of bounds
C12_Witness ==
    /\ pc = "dump_failed"
    /\ \E i \in 1..Len(term2doc) :
        /\ Len(term2doc[i].term) = 16384
        /\ Utf8Length(term2doc[i].term) = 32768
    /\ \A i \in 1..Len(term2doc) :
        /\ Len(term2doc[i].docs) <= 32767
        /\ \A j \in 1..Len(term2doc[i].docs) : term2doc[i].docs[j] = 5

\* C13: a StructPolicy.dump that fails partway leaves the target file with the
\* content it had before the call.
C13_DumpAtomic == [][pc' = "dump_failed" => file' = file]_vars

----------------------------------------------------------------------------
(* InvertedIndex.query on arguments of any type. *)

\* the elements a caller may put in the argument: strings, and for the other
\* types a hashable value (5) and an unhashable one ([])
Items ==
    {[type |-> "str", val |-> key] : key \in BuiltTerms}
    \cup {[type |-> "int", val |-> <<5>>], [type |-> "list", val |-> <<>>]}

\* the arguments: a list, a tuple, or a string (whose items are its characters)
Arguments ==
    {[kind |-> k, items |-> items] :
        k \in {"list", "tuple"}, items \in Strings(Items, MaxQuery)}
    \cup {[kind |-> "str", items |-> [i \in 1..Len(key) |-> [type |-> "str", val |-> <<key[i]>>]]] :
            key \in BuiltTerms}

QueryError == [ok |-> FALSE, answer |-> <<>>]

\* the loop of InvertedIndex.query over items of any type: "word not in
\* self.term2doc.keys()" hashes the word, which raises TypeError for a list,
\* and finds no key equal to a word that is not a string
RECURSIVE query_items(_, _, _, _)
query_items(m, items, doc_id, first) ==
    IF items = <<>> THEN [ok |-> TRUE, answer |-> sorted(doc_id)]
    ELSE IF Head(items).type = "list" THEN QueryError
    ELSE IF Head(items).type # "str" \/ ~Has(m, Head(items).val)
         THEN [ok |-> TRUE, answer |-> <<>>]
    ELSE IF first
         THEN query_items(m, Tail(items), doc_id \cup Range(Get(m, Head(items).val)), FALSE)
    ELSE query_items(m, Tail(items),
                     intersection_update(doc_id, Get(m, Head(items).val)), FALSE)

\* InvertedIndex.query(words) for words of any type: the assert lets lists only
\* through, and the elements are not looked at before the loop
query_argument(m, argument) ==
    IF argument.kind # "list" THEN QueryError
    ELSE query_items(m, argument.items, {}, TRUE)

\* an index holding some postings mapping is about to be queried
InitArgument ==
    /\ documents = <<>>
    /\ term2doc \in Mappings(BuiltTerms, DocIdSet, MaxTerms, MaxIds)
    /\ pc = "ready"
    /\ Idle

\* InvertedIndex.query, called with an argument of any type
QueryArgument ==
    /\ pc = "ready"
    /\ \E argument \in Arguments :
        LET result == query_argument(term2doc, argument)
        IN  /\ words' = argument
            /\ answer' = result.answer
            /\ pc' = IF result.ok THEN "queried" ELSE "query_failed"
    /\ UNCHANGED <<documents, term2doc, run, previous, di, pending, word, file,
                   cut, loaded, others>>

NextArgument == QueryArgument

SpecArgument == InitArgument /\ [][NextArgument]_vars

IsListOfStrings(argument) ==
    /\ argument.kind = "list"
    /\ \A i \in 1..Len(argument.items) : argument.items[i].type = "str"

\* C14: InvertedIndex.query reports an error whenever its argument is not a
\* list of strings (not a list at all, or a list with an element that is not a
\* string), and then leaves the postings mapping unchanged.
C14_MalformedArgumentFails ==
    [][(pc = "ready" /\ ~IsListOfStrings(words')) =>
            (pc' = "query_failed" /\ term2doc' = term2doc)]_vars

----------------------------------------------------------------------------
(* Calls of InvertedIndex.query on one loaded index, step by step. *)

\* the callers that query the loaded index
Callers == {"A", "B"}

CallIds == {2, 5}

\* a variant in which "first" belongs to the index and is set when the index
\* is made, so that a call after another finds it False
query_start_first_kept(ws) ==
    [words |-> ws, i |-> 1, doc_id |-> {},
     first |-> \A p \in DOMAIN calls : ~calls[p].done,
     done |-> FALSE, result |-> <<>>,
     after |-> {p \in DOMAIN calls : calls[p].done}]

\* lines 130-136: the locals of a call, before its loop; "after" records the
\* calls that had returned by then
query_start(ws) ==
    [words |-> ws, i |-> 1, doc_id |-> {}, first |-> TRUE,
     done |-> FALSE, result |-> <<>>,
     after |-> {p \in DOMAIN calls : calls[p].done}]

\* a variant that reads self.term2doc[word] of the defaultdict for every
\* word, which inserts an absent word with an empty list
lookup_inserts(m, w) ==
    IF Has(m, w) THEN m ELSE Append(m, [term |-> w, docs |-> <<>>])

\* a variant that sorts the list of a word it finds, in place
lookup_sorts(m, w) ==
    IF Has(m, w) THEN Put(m, w, sorted(Range(Get(m, w)))) ELSE m

\* the mapping after one iteration looked w up: "in self.term2doc.keys()"
\* and self.term2doc[word] for a key of the mapping insert nothing
lookup(m, w) == m

\* one iteration of "for word in words" (lines 137-145) on the locals c
query_iteration(m, c) ==
    LET w == c.words[c.i]
    IN  IF ~Has(m, w)
        THEN [c EXCEPT !.doc_id = {}, !.i = Len(c.words) + 1]
        ELSE IF c.first
        THEN [c EXCEPT !.doc_id = c.doc_id \cup Range(Get(m, w)),
                       !.first = FALSE, !.i = c.i + 1]
        ELSE [c EXCEPT !.doc_id = intersection_update(c.doc_id, Get(m, w)),
                       !.i = c.i + 1]

\* an index is about to be dumped, loaded and queried by the callers
InitCalls ==
    /\ documents = <<>>
    /\ term2doc \in Mappings(BuiltTerms, CallIds, MaxTerms, MaxIds)
    /\ pc = "ready"
    /\ Idle

\* a caller calls InvertedIndex.query on the loaded index
StartQuery(p) ==
    /\ pc = "loaded"
    /\ p \notin DOMAIN calls
    /\ \E ws \in WordLists(BuiltTerms) : calls' = (p :> query_start(ws)) @@ calls
    /\ UNCHANGED <<scripts, documents, term2doc, pc, run, previous, di, pending, word,
                   file, cut, loaded, words, answer, compared, bank, contained>>

\* the call of p runs one iteration of its loop
QueryStep(p) ==
    /\ pc = "loaded"
    /\ p \in DOMAIN calls
    /\ ~calls[p].done /\ calls[p].i <= Len(calls[p].words)
    /\ calls' = [calls EXCEPT ![p] = query_iteration(loaded.mapping, calls[p])]
    /\ loaded' = [loaded EXCEPT
                    !.mapping = lookup(loaded.mapping, calls[p].words[calls[p].i])]
    /\ UNCHANGED <<scripts, documents, term2doc, pc, run, previous, di, pending, word,
                   file, cut, words, answer, compared, bank, contained>>

\* line 146: the call of p returns sorted(list(doc_id))
QueryReturn(p) ==
    /\ pc = "loaded"
    /\ p \in DOMAIN calls
    /\ ~calls[p].done /\ calls[p].i > Len(calls[p].words)
    /\ calls' = [calls EXCEPT ![p].done = TRUE,
                              ![p].result = sorted(calls[p].doc_id)]
    /\ UNCHANGED <<scripts, documents, term2doc, pc, run, previous, di, pending, word,
                   file, cut, loaded, words, answer, compared, bank, contained>>

NextCalls ==
    \/ DumpIndex
    \/ LoadIndex
    \/ \E p \in Callers : StartQuery(p)
    \/ \E p \in Callers : QueryStep(p)
    \/ \E p \in Callers : QueryReturn(p)

SpecCalls == InitCalls /\ [][NextCalls]_vars

\* C15: a query made after another query of the same words on the loaded,
\* unmodified index returns the same list as the earlier one.
C15_RepeatedQuerySame ==
    \A p \in DOMAIN calls, q \in DOMAIN calls :
        (calls[q].done /\ p \in calls[q].after /\ calls[p].words = calls[q].words)
            => calls[q].result = calls[p].result

\* the same two present words were queried twice in a row, with an answer
C15_Witness ==
    \E p \in DOMAIN calls, q \in DOMAIN calls :
        /\ calls[q].done /\ p \in calls[q].after
        /\ calls[p].words = calls[q].words
        /\ Len(calls[q].words) = 2
        /\ calls[q].result # <<>>

\* C16: under every interleaving of the calls on one loaded index, each call
\* returns what it returns when run alone, and the shared mapping is the same
\* after the calls as before.
C16_ConcurrentQueries ==
    pc = "loaded" =>
        /\ loaded.mapping = term2doc
        /\ \A p \in DOMAIN calls :
            calls[p].done => calls[p].result = query(term2doc, calls[p].words)

\* two calls that overlapped, each of two words, one of them for an absent word
C16_Witness ==
    /\ DOMAIN calls = Callers
    /\ \A p \in Callers :
        /\ calls[p].done /\ calls[p].after = {}
        /\ Len(calls[p].words) = 2
    /\ \E p \in Callers : calls[p].result # <<>>
    /\ \E p \in Callers : \E i \in 1..2 : ~Has(term2doc, calls[p].words[i])

----------------------------------------------------------------------------
(* InvertedIndex.__eq__. *)

\* what an index may be compared with: another InvertedIndex, or a plain dict
\* (as in "{} != load_inverted_index")
Operands ==
    {[type |-> t, term2doc |-> m] :
        t \in {"InvertedIndex", "dict"},
        m \in Mappings(BuiltTerms, CallIds, MaxTerms, MaxIds)}

\* InvertedIndex.__eq__(self, other)
eq(self, other) ==
    IF other.type # "InvertedIndex" THEN FALSE
    ELSE DictEq(self, other.term2doc)

\* an index holding some mapping is about to be compared
InitCompare ==
    /\ documents = <<>>
    /\ term2doc \in Mappings(BuiltTerms, CallIds, MaxTerms, MaxIds)
    /\ pc = "ready"
    /\ Idle

\* self == other
CompareIndex ==
    /\ pc = "ready"
    /\ \E other \in Operands :
        compared' = [other |-> other, equal |-> eq(term2doc, other)]
    /\ pc' = "compared"
    /\ UNCHANGED <<scripts, documents, term2doc, run, previous, di, pending, word, file,
                   cut, loaded, words, answer, calls, bank, contained>>

NextCompare == CompareIndex

SpecCompare == InitCompare /\ [][NextCompare]_vars

\* the two mappings hold the same terms, and every term has lists of the same
\* length with the same id at every position
SameTermsAndLists(p, q) ==
    /\ \A i \in 1..Len(p) : \E j \in 1..Len(q) : q[j].term = p[i].term
    /\ \A j \in 1..Len(q) : \E i \in 1..Len(p) : p[i].term = q[j].term
    /\ \A i \in 1..Len(p), j \in 1..Len(q) :
        p[i].term = q[j].term =>
            /\ Len(p[i].docs) = Len(q[j].docs)
            /\ \A k \in 1..Len(p[i].docs) : p[i].docs[k] = q[j].docs[k]

\* C17: two InvertedIndex instances compare equal exactly when their mappings
\* hold the same terms and each term's id lists are equal in content and
\* order, whatever the order of the terms; an InvertedIndex is never equal to a
\* value that is not an InvertedIndex.
C17_Equality ==
    pc = "compared" =>
        (compared.equal <=>
            /\ compared.other.type = "InvertedIndex"
            /\ SameTermsAndLists(term2doc, compared.other.term2doc))

\* equal indexes whose two terms were inserted in opposite orders
C17_Witness ==
    /\ pc = "compared" /\ compared.equal
    /\ Len(term2doc) = 2
    /\ compared.other.term2doc[1].term = term2doc[2].term
    /\ \E i \in 1..2 : term2doc[i].docs # <<>>

----------------------------------------------------------------------------
(* The layout of the file StructPolicy.dump writes. *)

\* 4 plus the sum of 4 + L + 2M over the first n entries of m, L the UTF-8
\* byte length of the term and M the number of its ids
RECURSIVE LayoutLength(_, _)
LayoutLength(m, n) ==
    IF n = 0 THEN 4
    ELSE LayoutLength(m, n - 1) + 4 + Utf8Length(m[n].term) + 2 * Len(m[n].docs)

\* C18: the file dumped for an in-bounds mapping is the big-endian int32 term
\* count N, then the N entries in the mapping's iteration order, each a
\* big-endian int16 L, the L UTF-8 bytes of the term, a big-endian int16 M and
\* the M ids as big-endian int16 in list order; its length is
\* 4 + sum(4 + L + 2M).
C18_FileLayout ==
    pc = "dumped" =>
        /\ Len(file) = LayoutLength(term2doc, Len(term2doc))
        /\ Field32(file) = Len(term2doc)
        /\ \A n \in 1..Len(term2doc) :
            LET at == LayoutLength(term2doc, n - 1)
                L == Utf8Length(term2doc[n].term)
                M == Len(term2doc[n].docs)
            IN  /\ Field16(file, at) = L
                /\ decode(SubSeq(file, at + 3, at + 2 + L))
                     = [ok |-> TRUE, str |-> term2doc[n].term]
                /\ Field16(file, at + 2 + L) = M
                /\ \A j \in 1..M :
                    Field16(file, at + 4 + L + 2 * (j - 1)) = term2doc[n].docs[j]

\* two entries, with a two-byte character in a term and a negative id
C18_Witness ==
    /\ pc = "dumped"
    /\ Len(term2doc) = 2
    /\ \E n \in 1..2 : Utf8Length(term2doc[n].term) > Len(term2doc[n].term)
    /\ \E n \in 1..2 : \E j \in 1..Len(term2doc[n].docs) : term2doc[n].docs[j] < 0
    /\ Len(file) >= 17

----------------------------------------------------------------------------
(* JSONPolicy: json.dump writes the mapping as text, json.loads parses it. *)
(* A text is a sequence of code points.                                     *)

\* the lower-case hexadecimal digit of d, 0 <= d < 16
hex_digit(d) == IF d < 10 THEN 48 + d ELSE 87 + d

\* '\uXXXX'
u_escape(c) ==
    <<92, 117, hex_digit(c \div 4096), hex_digit((c \div 256) % 16),
      hex_digit((c \div 16) % 16), hex_digit(c % 16)>>

\* a variant that writes every character as it is
escape_raw(c) == <<c>>

\* json.encoder.encode_basestring_ascii, one character (ensure_ascii=True):
\* printable ASCII as it is, '"' and '\' and the short control escapes with a
\* backslash, the rest as \uXXXX, beyond U+FFFF as a surrogate pair
escape(c) ==
    IF c = 34 THEN <<92, 34>>
    ELSE IF c = 92 THEN <<92, 92>>
    ELSE IF c = 10 THEN <<92, 110>>
    ELSE IF c = 13 THEN <<92, 114>>
    ELSE IF c = 9 THEN <<92, 116>>
    ELSE IF c = 8 THEN <<92, 98>>
    ELSE IF c = 12 THEN <<92, 102>>
    ELSE IF c >= 32 /\ c <= 126 THEN <<c>>
    ELSE IF c >= 65536
         THEN u_escape(55296 + ((c - 65536) \div 1024))
              \o u_escape(56320 + ((c - 65536) % 1024))
    ELSE u_escape(c)

\* the JSON text of a string
json_str(key) == <<34>> \o Flatten([i \in 1..Len(key) |-> escape(key[i])]) \o <<34>>

\* int.__repr__
RECURSIVE repr_nat(_)
repr_nat(n) == IF n < 10 THEN <<48 + n>> ELSE repr_nat(n \div 10) \o <<48 + (n % 10)>>

repr_int(n) == IF n < 0 THEN <<45>> \o repr_nat(-n) ELSE repr_nat(n)

\* separator.join(parts)
RECURSIVE join(_, _)
join(parts, separator) ==
    IF Len(parts) = 0 THEN <<>>
    ELSE IF Len(parts) = 1 THEN parts[1]
    ELSE parts[1] \o separator \o join(Tail(parts), separator)

\* the JSON text of a list of ints, items separated by ', '
json_list(docs) ==
    <<91>> \o join([j \in 1..Len(docs) |-> repr_int(docs[j])], <<44, 32>>) \o <<93>>

\* json.dumps(word_to_docs_mapping): the keys in iteration order, ': ' after
\* a key and ', ' between items
json_dumps(m) ==
    <<123>>
    \o join([i \in 1..Len(m) |-> json_str(m[i].term) \o <<58, 32>> \o json_list(m[i].docs)],
            <<44, 32>>)
    \o <<125>>

\* the character at position i of the text, -1 past its end
At(t, i) == IF i >= 1 /\ i <= Len(t) THEN t[i] ELSE -1

\* json.decoder WHITESPACE: the position of the next character that is not
\* a space, tab, line feed or carriage return
RECURSIVE skip_ws(_, _)
skip_ws(t, i) == IF At(t, i) \in {32, 9, 10, 13} THEN skip_ws(t, i + 1) ELSE i

hex_value(c) ==
    IF c \in 48..57 THEN c - 48
    ELSE IF c \in 97..102 THEN c - 87
    ELSE IF c \in 65..70 THEN c - 55
    ELSE -1

\* the number written by the four hexadecimal digits from i, or -1
hex4(t, i) ==
    LET d == [k \in 0..3 |-> hex_value(At(t, i + k))]
    IN  IF \E k \in 0..3 : d[k] = -1 THEN -1
        ELSE ((d[0] * 16 + d[1]) * 16 + d[2]) * 16 + d[3]

ParseError == [ok |-> FALSE, val |-> <<>>, next |-> 0]

\* the character a one-letter escape stands for, or -1
simple_escape(e) ==
    IF e \in {34, 92, 47} THEN e
    ELSE IF e = 98 THEN 8
    ELSE IF e = 102 THEN 12
    ELSE IF e = 110 THEN 10
    ELSE IF e = 114 THEN 13
    ELSE IF e = 116 THEN 9
    ELSE -1

\* json.decoder.py_scanstring from the character after the opening quote,
\* strict: a \uXXXX high surrogate followed by a \uXXXX low surrogate is read
\* as one character
RECURSIVE scan_string(_, _, _)
scan_string(t, i, str) ==
    LET c == At(t, i)
    IN  IF c < 32 THEN ParseError
        ELSE IF c = 34 THEN [ok |-> TRUE, val |-> str, next |-> i + 1]
        ELSE IF c # 92 THEN scan_string(t, i + 1, Append(str, c))
        ELSE IF At(t, i + 1) = 117
        THEN LET high == hex4(t, i + 2)
                 low == hex4(t, i + 8)
             IN  IF high = -1 THEN ParseError
                 ELSE IF /\ high \in 55296..56319
                         /\ At(t, i + 6) = 92 /\ At(t, i + 7) = 117
                         /\ low \in 56320..57343
                 THEN scan_string(t, i + 12,
                        Append(str, 65536 + (high - 55296) * 1024 + (low - 56320)))
                 ELSE scan_string(t, i + 6, Append(str, high))
        ELSE IF simple_escape(At(t, i + 1)) = -1 THEN ParseError
        ELSE scan_string(t, i + 2, Append(str, simple_escape(At(t, i + 1))))

\* the decimal digits from i: their number and the position after them
RECURSIVE scan_digits(_, _, _)
scan_digits(t, i, val) ==
    IF At(t, i) \in 48..57 THEN scan_digits(t, i + 1, val * 10 + (At(t, i) - 48))
    ELSE [val |-> val, next |-> i]

\* json.scanner NUMBER_RE for an int: '-'? (0 | [1-9][0-9]*); a fraction or
\* an exponent makes a float, which no list of ids holds
parse_int(t, i) ==
    LET start == IF At(t, i) = 45 THEN i + 1 ELSE i
        digits == scan_digits(t, start, 0)
    IN  IF digits.next = start THEN ParseError
        ELSE IF At(t, start) = 48 /\ digits.next > start + 1 THEN ParseError
        ELSE IF At(t, digits.next) \in {46, 101, 69} THEN ParseError
        ELSE [ok |-> TRUE,
              val |-> IF start > i THEN 0 - digits.val ELSE digits.val,
              next |-> digits.next]

\* json.decoder.JSONArray from the first value of a list that is not empty
RECURSIVE parse_ints(_, _, _)
parse_ints(t, i, docs) ==
    LET doc_id == parse_int(t, i)
        j == skip_ws(t, doc_id.next)
    IN  IF ~doc_id.ok THEN ParseError
        ELSE IF At(t, j) = 93
        THEN [ok |-> TRUE, val |-> Append(docs, doc_id.val), next |-> j + 1]
        ELSE IF At(t, j) = 44
        THEN parse_ints(t, skip_ws(t, j + 1), Append(docs, doc_id.val))
        ELSE ParseError

\* json.decoder.JSONArray from '['
parse_list(t, i) ==
    IF At(t, i) # 91 THEN ParseError
    ELSE IF At(t, skip_ws(t, i + 1)) = 93
    THEN [ok |-> TRUE, val |-> <<>>, next |-> skip_ws(t, i + 1) + 1]
    ELSE parse_ints(t, skip_ws(t, i + 1), <<>>)

\* json.decoder.JSONObject from the opening quote of a key of an object that
\* is not empty; a repeated key keeps its place and takes the later value
RECURSIVE parse_pairs(_, _, _)
parse_pairs(t, i, m) ==
    LET key == scan_string(t, i + 1, <<>>)
        colon == skip_ws(t, key.next)
        docs == parse_list(t, skip_ws(t, colon + 1))
        j == skip_ws(t, docs.next)
    IN  IF At(t, i) # 34 THEN ParseError
        ELSE IF ~key.ok THEN ParseError
        ELSE IF At(t, colon) # 58 THEN ParseError
        ELSE IF ~docs.ok THEN ParseError
        ELSE IF At(t, j) = 125
        THEN [ok |-> TRUE, val |-> Put(m, key.val, docs.val), next |-> j + 1]
        ELSE IF At(t, j) = 44
        THEN parse_pairs(t, skip_ws(t, j + 1), Put(m, key.val, docs.val))
        ELSE ParseError

\* json.loads(text) of a text that holds an object of lists of ints; any
\* other text is an error or a value that is not a postings mapping
json_loads(text) ==
    LET i == skip_ws(text, 1)
        j == skip_ws(text, i + 1)
        pairs == IF At(text, j) = 125
                 THEN [ok |-> TRUE, val |-> <<>>, next |-> j + 1]
                 ELSE parse_pairs(text, j, <<>>)
    IN  IF At(text, i) # 123 THEN NoMapping
        ELSE IF ~pairs.ok THEN NoMapping
        ELSE IF skip_ws(text, pairs.next) <= Len(text) THEN NoMapping
        ELSE [ok |-> TRUE, mapping |-> pairs.val]

\* file.read() of a file opened as text: the bytes decoded strictly, piece
\* by piece, the pieces cut where a character starts
RECURSIVE read_text(_)
read_text(b) ==
    LET starts == {k \in 2..Len(b) : ~IsCont(b[k])}
        middle == (Len(b) \div 2) + 1
        k == CHOOSE x \in starts :
                \A y \in starts :
                    (x - middle) * (x - middle) <= (y - middle) * (y - middle)
        head == read_text(SubSeq(b, 1, k - 1))
        tail == read_text(SubSeq(b, k, Len(b)))
    IN  IF starts = {} THEN decode(b)
        ELSE IF head.ok /\ tail.ok THEN [ok |-> TRUE, str |-> head.str \o tail.str]
        ELSE [ok |-> FALSE, str |-> <<>>]

\* terms for the text policy: the empty term, characters that JSON escapes,
\* a character beyond U+FFFF, and a high surrogate followed by a low one
JsonTerms == {<<>>, <<34, 92, 10>>, <<128512, 1103>>, <<55357, 56832>>}

JsonIds == {-7, 0, 40000}

\* an index holding some mapping is about to be dumped with JSONPolicy
InitJson ==
    /\ documents = <<>>
    /\ term2doc \in Mappings(JsonTerms, JsonIds, MaxTerms, MaxIds)
    /\ pc = "ready"
    /\ Idle

\* JSONPolicy.dump: the text of json.dump, written through a file opened
\* with encoding='utf-8'
DumpJson ==
    /\ pc = "ready"
    /\ LET written == encode(json_dumps(term2doc))
       IN  /\ file' = written.bytes
           /\ pc' = IF written.ok THEN "dumped" ELSE "dump_failed"
    /\ UNCHANGED <<documents, term2doc, run, previous, di, pending, word, cut,
                   loaded, words, answer, others>>

\* JSONPolicy.load: json.loads of the text read from the file
LoadJson ==
    /\ pc = "dumped"
    /\ LET text == read_text(file)
           word_to_docs_mapping == IF text.ok THEN json_loads(text.str) ELSE NoMapping
       IN  /\ loaded' = word_to_docs_mapping
           /\ pc' = IF word_to_docs_mapping.ok THEN "loaded" ELSE "load_failed"
    /\ UNCHANGED <<documents, term2doc, run, previous, di, pending, word, file,
                   cut, words, answer, others>>

NextJson ==
    \/ DumpJson
    \/ LoadJson

SpecJson == InitJson /\ [][NextJson]_vars

\* C19, as stated: JSONPolicy.load of the file JSONPolicy.dump wrote for any
\* mapping of string terms and integer ids returns a mapping with the same
\* terms and, for each term, the same ids in the same order.
C19_JsonRoundTrip ==
    pc \in {"dumped", "dump_failed", "loaded", "load_failed"} =>
        /\ pc # "dump_failed" /\ pc # "load_failed"
        /\ pc = "loaded" => SameTermsAndLists(loaded.mapping, term2doc)

\* no term holds a high surrogate immediately followed by a low surrogate
NoSurrogatePair(m) ==
    \A n \in 1..Len(m) : \A i \in 1..Len(m[n].term) - 1 :
        ~(m[n].term[i] \in 55296..56319 /\ m[n].term[i + 1] \in 56320..57343)

\* C19, amended: the round trip holds for every mapping in which no term holds
\* a high surrogate immediately followed by a low surrogate (in particular
\* for every mapping whose terms can be encoded as UTF-8).
C19_JsonRoundTripAmended ==
    (NoSurrogatePair(term2doc)
     /\ pc \in {"dumped", "dump_failed", "loaded", "load_failed"}) =>
        /\ pc # "dump_failed" /\ pc # "load_failed"
        /\ pc = "loaded" =>
            /\ SameTermsAndLists(loaded.mapping, term2doc)
            /\ \A n \in 1..Len(term2doc) : loaded.mapping[n].term = term2doc[n].term

\* two terms, with escaped characters and a character beyond U+FFFF, a
\* negative id and an id beyond 16 bits
C19_Witness ==
    /\ pc = "loaded"
    /\ Len(term2doc) = 2
    /\ term2doc[1].term = <<34, 92, 10>>
    /\ term2doc[2].term = <<128512, 1103>>
    /\ term2doc[1].docs = <<-7>>
    /\ term2doc[2].docs = <<40000>>
    /\ loaded.mapping = term2doc

----------------------------------------------------------------------------
(* The asset web service: Asset and CompositeAssets (app.bank). *)

\* the most assets the bank holds
MaxAssets == 3

\* asset names: "a", "ab", "b"
Names == {<<97>>, <<97, 98>>, <<98>>}

\* two assets per name, which differ in char_code, capital and interest
Assets ==
    {[char_code |-> v[1], name |-> n, capital |-> v[2], interest |-> v[3]] :
        n \in Names, v \in {<<"USD", 72, 4>>, <<"EUR", 1, 5>>}}

\* str.__lt__: the order of the code points at the first difference, a
\* proper prefix before the longer string
RECURSIVE str_lt(_, _)
str_lt(a, b) ==
    IF b = <<>> THEN FALSE
    ELSE IF a = <<>> THEN TRUE
    ELSE IF a[1] # b[1] THEN a[1] < b[1]
    ELSE str_lt(Tail(a), Tail(b))

\* Asset.__lt__
lt(self, other) == str_lt(self.name, other.name)

\* a variant that goes right of the elements equal to x (bisect_right)
RECURSIVE bisect_right(_, _, _, _)
bisect_right(a, x, lo, hi) ==
    IF lo >= hi THEN lo
    ELSE LET mid == (lo + hi) \div 2
         IN  IF lt(x, a[mid + 1]) THEN bisect_right(a, x, lo, mid)
             ELSE bisect_right(a, x, mid + 1, hi)

\* the loop of bisect.bisect_left(a, x, lo, hi); positions count from 0
RECURSIVE bisect_loop(_, _, _, _)
bisect_loop(a, x, lo, hi) ==
    IF lo >= hi THEN lo
    ELSE LET mid == (lo + hi) \div 2
         IN  IF lt(a[mid + 1], x) THEN bisect_loop(a, x, mid + 1, hi)
             ELSE bisect_loop(a, x, lo, mid)

\* bisect.bisect_left(a, x)
bisect_left(a, x) == bisect_loop(a, x, 0, Len(a))

\* a variant that puts x at the end of the list (list.append)
insort_append(a, x) == Append(a, x)

\* bisect.insort_left(a, x): a.insert(bisect_left(a, x), x)
insort_left(a, x) ==
    LET index == bisect_left(a, x)
    IN  SubSeq(a, 1, index) \o <<x>> \o SubSeq(a, index + 1, Len(a))

\* a variant that looks for the asset itself, not for its name
contains_asset(collection, asset) ==
    LET index == bisect_left(collection, asset)
    IN  index # Len(collection) /\ collection[index + 1] = asset

\* CompositeAssets.contains(asset)
contains(collection, asset) ==
    LET index == bisect_left(collection, asset)
    IN  index # Len(collection) /\ collection[index + 1].name = asset.name

\* app.bank = CompositeAssets()
InitAssets ==
    /\ documents = <<>>
    /\ term2doc = <<>>
    /\ pc = "serving"
    /\ Idle

\* CompositeAssets.add; an answer of contains for the collection as it was
\* is forgotten
AddAsset ==
    /\ pc \in {"serving", "constructed"}
    /\ Len(bank) < MaxAssets
    /\ \E asset \in Assets : bank' = insort_left(bank, asset)
    /\ contained' = <<>>
    /\ UNCHANGED <<scripts, documents, term2doc, pc, run, previous, di, pending, word,
                   file, cut, loaded, words, answer, calls, compared>>

\* CompositeAssets.clear
ClearAssets ==
    /\ pc \in {"serving", "constructed"}
    /\ bank' = <<>>
    /\ contained' = <<>>
    /\ UNCHANGED <<scripts, documents, term2doc, pc, run, previous, di, pending, word,
                   file, cut, loaded, words, answer, calls, compared>>

\* CompositeAssets.contains
ContainsAsset ==
    /\ pc \in {"serving", "constructed"}
    /\ \E asset \in Assets :
        contained' = [asset |-> asset, result |-> contains(bank, asset)]
    /\ UNCHANGED <<scripts, documents, term2doc, pc, run, previous, di, pending, word,
                   file, cut, loaded, words, answer, calls, compared, bank>>

\* the lists of assets given to the constructor, in any order
AssetLists ==
    UNION {[1..n -> Assets] : n \in 0..MaxAssets}

\* the loop of CompositeAssets.__init__ over _asset_collection
RECURSIVE init_loop(_, _)
init_loop(collection, assets) ==
    IF assets = <<>> THEN collection
    ELSE init_loop(insort_left(collection, Head(assets)), Tail(assets))

\* CompositeAssets(_asset_collection)
CompositeAssets(asset_collection) == init_loop(<<>>, asset_collection)

\* the collection is constructed from a list of assets, before any other
\* operation on it
ConstructAssets ==
    /\ pc = "serving"
    /\ bank = <<>>
    /\ \E asset_collection \in AssetLists :
        bank' = CompositeAssets(asset_collection)
    /\ pc' = "constructed"
    /\ contained' = <<>>
    /\ UNCHANGED <<scripts, documents, term2doc, run, previous, di, pending,
                   word, file, cut, loaded, words, answer, calls, compared>>

NextAssets ==
    \/ ConstructAssets
    \/ AddAsset
    \/ ClearAssets
    \/ ContainsAsset

SpecAssets == InitAssets /\ [][NextAssets]_vars

\* C20: after any sequence of add and clear, CompositeAssets.contains(a) is
\* True exactly when the collection holds an asset whose name is a.name,
\* whatever the char_code, capital and interest of a.
C20_ContainsByName ==
    contained # <<>> =>
        (contained.result <=>
            \E i \in 1..Len(bank) : bank[i].name = contained.asset.name)

\* a full collection with two assets of one name, asked for an asset it does
\* not hold but whose name it holds
C20_Witness ==
    /\ contained # <<>> /\ contained.result
    /\ Len(bank) = MaxAssets
    /\ \E i, j \in 1..Len(bank) : i # j /\ bank[i].name = bank[j].name
    /\ \A i \in 1..Len(bank) : bank[i] # contained.asset

\* C26: after any sequence of CompositeAssets operations (construction from
\* a list of assets in any order, add, clear), the internal collection is
\* sorted in ascending order of asset name.
C26_SortedByName ==
    \A i, j \in 1..Len(bank) : i < j => ~str_lt(bank[j].name, bank[i].name)

\* a full collection that was constructed from a list: it holds two assets
\* of one name and an asset of another name
C26_Witness ==
    /\ pc = "constructed"
    /\ Len(bank) = MaxAssets
    /\ \E i, j \in 1..Len(bank) : i # j /\ bank[i].name = bank[j].name
    /\ \E i, j \in 1..Len(bank) : bank[i].name # bank[j].name

----------------------------------------------------------------------------
(* The asset web service: the handlers of the Flask application. *)

\* the replies of the CBR site to requests.get: [ok, text]; a page with the
\* table of rates, a page without it, and two replies with a non-OK status
CbrResponses ==
    { [ok |-> TRUE, text |-> "rates"], [ok |-> TRUE, text |-> ""],
      [ok |-> FALSE, text |-> "rates"], [ok |-> FALSE, text |-> ""] }

\* @app.errorhandler(404)
route_not_found == [body |-> "This route is not found", status |-> 404]

\* @app.errorhandler(500)
route_not_available == [body |-> "CBR service is unavailable", status |-> 503]

\* the status codes app.errorhandler registered a handler for
error_handlers == {404, 500}

\* werkzeug's page of an HTTPException that has no handler: its name and
\* its description in HTML
get_body(code) ==
    IF code = 503 THEN "<title>503 Service Unavailable</title>"
    ELSE IF code = 500 THEN "<title>500 Internal Server Error</title>"
    ELSE "<title>404 Not Found</title>"

\* Flask's handling of an HTTPException of the given code: the registered
\* handler of that code, else the exception's own page with its own status
handle_http_exception(code) ==
    IF code \notin error_handlers
    THEN [body |-> get_body(code), status |-> code]
    ELSE IF code = 404 THEN route_not_found
    ELSE route_not_available

\* abort(code) raises the HTTPException of that code
abort(code) == handle_http_exception(code)

\* Flask's handling of any other exception raised by a view: an
\* InternalServerError, code 500
handle_exception == handle_http_exception(500)

\* parse_cbr_currency_base_daily: html.fromstring raises on an empty document
parse_cbr_currency_base_daily(content) ==
    IF content = "" THEN [ok |-> FALSE, val |-> <<>>]
    ELSE [ok |-> TRUE, val |-> "{USD: 72}"]

\* get_daily, for the reply of the CBR site
get_daily(cbr_response) ==
    IF ~cbr_response.ok THEN abort(503)
    ELSE LET result == parse_cbr_currency_base_daily(cbr_response.text)
         IN  IF result.ok THEN [body |-> result.val, status |-> 200]
             ELSE handle_exception

\* the value of a string of decimal digits
RECURSIVE digits_value(_)
digits_value(s) ==
    IF s = <<>> THEN 0
    ELSE 10 * digits_value(SubSeq(s, 1, Len(s) - 1)) + (s[Len(s)] - 48)

\* float(s) for a string of decimal digits or of other characters:
\* [ok, val], a ValueError for a string that is not a number
float(s) ==
    IF s # <<>> /\ \A i \in 1..Len(s) : s[i] \in 48..57
    THEN [ok |-> TRUE, val |-> digits_value(s)]
    ELSE [ok |-> FALSE, val |-> 0]

\* the requests of /api/asset/add/<char_code>/<name>/<capital>/<interest>;
\* capital is "72", "1" or "x", interest is "4" or "x"
AddRequests ==
    [route : {"/api/asset/add"}, char_code : {"USD", "EUR"}, name : Names,
     capital : {<<55, 50>>, <<49>>, <<120>>}, interest : {<<52>>, <<120>>}]

\* the lists of names of /api/asset/get?name=...&name=...
NameLists ==
    {<<>>} \cup {<<n>> : n \in Names \cup {<<122>>}}
           \cup {<<n1, n2>> : n1 \in Names, n2 \in Names \cup {<<122>>}}

\* the reply to a request, as the client receives it: a text body with a
\* status, or the list given to jsonify with the status 200
reply(request, result) ==
    [request |-> request, body |-> result.body, status |-> result.status,
     json |-> <<>>]

jsonify(request, result) ==
    [request |-> request, body |-> "", status |-> 200, json |-> result]

\* the code points of a currency code
chars(char_code) ==
    IF char_code = "USD" THEN <<85, 83, 68>>
    ELSE IF char_code = "EUR" THEN <<69, 85, 82>>
    ELSE <<>>

\* Asset.to_list
to_list(asset) ==
    <<asset.char_code, asset.name, asset.capital, asset.interest>>

\* list.__lt__ on two lists [char_code, name, capital, interest]
list_lt(a, b) ==
    IF a[1] # b[1] THEN str_lt(chars(a[1]), chars(b[1]))
    ELSE IF a[2] # b[2] THEN str_lt(a[2], b[2])
    ELSE IF a[3] # b[3] THEN a[3] < b[3]
    ELSE a[4] < b[4]

\* insort_left(result, x) on a sorted list of lists: x goes after the
\* elements less than x
insort_lists(result, x) ==
    LET index == Cardinality({i \in 1..Len(result) : list_lt(result[i], x)})
    IN  SubSeq(result, 1, index) \o <<x>>
            \o SubSeq(result, index + 1, Len(result))

\* sorted(result) and CompositeAssets.to_list: the lists of the assets in
\* ascending order
RECURSIVE sorted_lists(_)
sorted_lists(result) ==
    IF result = <<>> THEN <<>>
    ELSE insort_lists(sorted_lists(SubSeq(result, 1, Len(result) - 1)),
                      result[Len(result)])

\* CompositeAssets.to_list
collection_to_list(collection) ==
    sorted_lists([i \in 1..Len(collection) |-> to_list(collection[i])])

\* CompositeAssets.get(name)
get(collection, name) ==
    LET asset == [char_code |-> "", name |-> name, capital |-> 0,
                  interest |-> 0]
        index == bisect_left(collection, asset)
    IN  IF index # Len(collection) /\ collection[index + 1].name = asset.name
        THEN to_list(collection[index + 1])
        ELSE <<>>

\* the loop of api_asset_get over names
RECURSIVE get_names(_, _)
get_names(collection, names) ==
    IF names = <<>> THEN <<>>
    ELSE LET asset == get(collection, Head(names))
         IN  (IF asset # <<>> THEN <<asset>> ELSE <<>>)
                 \o get_names(collection, Tail(names))

\* app = Flask(__name__); app.bank = CompositeAssets()
InitService ==
    /\ documents = <<>>
    /\ term2doc = <<>>
    /\ pc = "serving"
    /\ Idle

\* GET /cbr/daily
GetDaily ==
    /\ pc = "serving"
    /\ \E cbr_response \in CbrResponses :
        response' = reply([route |-> "/cbr/daily", cbr |-> cbr_response],
                          get_daily(cbr_response))
    /\ UNCHANGED <<documents, term2doc, pc, run, previous, di, pending, word,
                   file, cut, loaded, words, answer, calls, compared, bank,
                   contained, inflight, word2top, top, variant>>

\* api_asset_add(char_code, name, capital, interest)
api_asset_add(collection, request) ==
    LET capital == float(request.capital)
        interest == float(request.interest)
        asset == [char_code |-> request.char_code, name |-> request.name,
                  capital |-> capital.val, interest |-> interest.val]
    IN  IF ~capital.ok \/ ~interest.ok
        THEN [bank |-> collection, result |-> handle_exception]
        ELSE IF contains(collection, asset)
        THEN [bank |-> collection,
              result |-> [body |-> "Asset '{name}' already exists",
                          status |-> 403]]
        ELSE [bank |-> insort_left(collection, asset),
              result |-> [body |-> "Asset '{name}' was successfully added",
                          status |-> 200]]

\* GET /api/asset/add/...
ApiAssetAdd ==
    /\ pc = "serving"
    /\ \E request \in AddRequests :
        LET done == api_asset_add(bank, request)
        IN  /\ bank' = done.bank
            /\ response' = reply(request, done.result)
    /\ UNCHANGED <<documents, term2doc, pc, run, previous, di, pending, word,
                   file, cut, loaded, words, answer, calls, compared,
                   contained, inflight, word2top, top, variant>>

\* GET /api/asset/list
ApiAssetList ==
    /\ pc = "serving"
    /\ response' = jsonify([route |-> "/api/asset/list"],
                           collection_to_list(bank))
    /\ UNCHANGED <<documents, term2doc, pc, run, previous, di, pending, word,
                   file, cut, loaded, words, answer, calls, compared, bank,
                   contained, inflight, word2top, top, variant>>

\* GET /api/asset/cleanup
ApiAssetCleanup ==
    /\ pc = "serving"
    /\ bank' = <<>>
    /\ response' = reply([route |-> "/api/asset/cleanup"],
                         [body |-> "", status |-> 200])
    /\ UNCHANGED <<documents, term2doc, pc, run, previous, di, pending, word,
                   file, cut, loaded, words, answer, calls, compared,
                   contained, inflight, word2top, top, variant>>

\* GET /api/asset/get?name=...
ApiAssetGet ==
    /\ pc = "serving"
    /\ \E names \in NameLists :
        response' = jsonify([route |-> "/api/asset/get", names |-> names],
                            sorted_lists(get_names(bank, names)))
    /\ UNCHANGED <<documents, term2doc, pc, run, previous, di, pending, word,
                   file, cut, loaded, words, answer, calls, compared, bank,
                   contained, inflight, word2top, top, variant>>

NextService ==
    \/ GetDaily
    \/ ApiAssetAdd
    \/ ApiAssetList
    \/ ApiAssetCleanup
    \/ ApiAssetGet

SpecService == InitService /\ [][NextService]_vars

\* C21: whenever the CBR site answers the request made by GET /cbr/daily
\* with a non-OK status, the service replies with status 503 and the body
\* "CBR service is unavailable".
C21_CbrUnavailable ==
    (/\ response # <<>>
     /\ response.request.route = "/cbr/daily"
     /\ ~response.request.cbr.ok)
        => /\ response.status = 503
           /\ response.body = "CBR service is unavailable"

\* no two assets of the collection have the same name
UniqueNames(collection) ==
    \A i, j \in 1..Len(collection) :
        i # j => collection[i].name # collection[j].name

\* the collection holds an asset of that name
HasName(collection, name) ==
    \E i \in 1..Len(collection) : collection[i].name = name

\* the step is the handling of an /api/asset/add request
IsAdd ==
    /\ response'.request.route = "/api/asset/add"
    /\ response' # response \/ bank' # bank

\* the add is refused and the bank is left as it was
Refused == response'.status = 403 /\ bank' = bank

\* the add is accepted and the bank grows by exactly the asset of the request
Accepted ==
    /\ response'.status = 200
    /\ Len(bank') = Len(bank) + 1
    /\ \E i \in 1..Len(bank') :
        /\ bank'[i].name = response'.request.name
        /\ bank'[i].char_code = response'.request.char_code
        /\ bank = SubSeq(bank', 1, i - 1) \o SubSeq(bank', i + 1, Len(bank'))

----------------------------------------------------------------------------
(* The asset web service: two /api/asset/add requests handled by two
   threads of the server on the one app.bank. *)

\* the threads of the server, one request each
Handlers == {"first", "second"}

\* the handler p is at the given line of api_asset_add
AtLine(p, line) == p \in DOMAIN inflight /\ inflight[p].pc = line

\* lines 239-242: the request is routed to api_asset_add, which converts
\* capital and interest and builds the asset; a ValueError ends the request
ReceiveAdd(p) ==
    /\ pc = "serving"
    /\ p \notin DOMAIN inflight
    /\ \E request \in AddRequests :
        LET capital == float(request.capital)
            interest == float(request.interest)
            asset == [char_code |-> request.char_code,
                      name |-> request.name,
                      capital |-> capital.val, interest |-> interest.val]
        IN  inflight' =
                (p :> [pc |-> IF capital.ok /\ interest.ok THEN "contains"
                              ELSE "done",
                       asset |-> asset,
                       status |-> IF capital.ok /\ interest.ok THEN 0
                                  ELSE handle_exception.status]) @@ inflight
    /\ UNCHANGED <<documents, term2doc, pc, run, previous, di, pending, word,
                   file, cut, loaded, words, answer, calls, compared, bank,
                   contained, response, word2top, top, variant>>

\* lines 244-245: if app.bank.contains(asset): return ..., 403
CheckContains(p) ==
    /\ AtLine(p, "contains")
    /\ inflight' =
        [inflight EXCEPT ![p] =
            IF contains(bank, inflight[p].asset)
            THEN [@ EXCEPT !.pc = "done", !.status = 403]
            ELSE [@ EXCEPT !.pc = "add"]]
    /\ UNCHANGED <<documents, term2doc, pc, run, previous, di, pending, word,
                   file, cut, loaded, words, answer, calls, compared, bank,
                   contained, response, word2top, top, variant>>

\* lines 247-248: app.bank.add(asset); return ..., 200
AddToBank(p) ==
    /\ AtLine(p, "add")
    /\ bank' = insort_left(bank, inflight[p].asset)
    /\ inflight' = [inflight EXCEPT ![p] = [@ EXCEPT !.pc = "done",
                                                     !.status = 200]]
    /\ UNCHANGED <<documents, term2doc, pc, run, previous, di, pending, word,
                   file, cut, loaded, words, answer, calls, compared,
                   contained, response, word2top, top, variant>>

NextThreads ==
    \/ \E p \in Handlers : ReceiveAdd(p)
    \/ \E p \in Handlers : CheckContains(p)
    \/ \E p \in Handlers : AddToBank(p)

SpecThreads == InitService /\ [][NextThreads]_vars

\* both requests were answered
BothDone == \A p \in Handlers : AtLine(p, "done")

\* C30: under every interleaving of two add requests for the same name,
\* exactly one request answers 200, the other answers 403, and the bank
\* holds one asset of that name.
C30_ConcurrentAdds ==
    (/\ BothDone
     /\ inflight["first"].asset.name = inflight["second"].asset.name
     /\ \A p \in Handlers : inflight[p].status # 503)
        => /\ {inflight[p].status : p \in Handlers} = {200, 403}
           /\ Cardinality({i \in 1..Len(bank) :
                  bank[i].name = inflight["first"].asset.name}) = 1

----------------------------------------------------------------------------
(* Stackoverflow analytics: StackoverflowAnalytics.query. *)

\* the most words word2top holds
MaxWords == 2

\* the lists of (year, score) that build_analitycs appended for a word
EntryLists ==
    { <<<<2019, 5>>>>, <<<<2020, 5>>>>, <<<<2020, 10>>>>,
      <<<<2019, 10>>, <<2020, -5>>>>, <<<<2019, 5>>, <<2019, 5>>>>,
      <<<<2019, -5>>, <<2019, 5>>>> }

\* word2top: the words, in the order of insertion, each with its list
Word2Tops ==
    UNION {{p \in [1..n -> [word : Names, values : EntryLists]] :
               \A i, j \in 1..n : i # j => p[i].word # p[j].word} :
           n \in 0..MaxWords}

\* the years and the numbers asked for
Years == {2019, 2020, 2021}
TopNs == {-1, 0, 1, 2, 3}

\* answer[key] += score on a defaultdict(int): the entries [key, total] in
\* the order of insertion
add_score(counts, key, score) ==
    IF \E i \in 1..Len(counts) : counts[i][1] = key
    THEN [i \in 1..Len(counts) |->
             IF counts[i][1] = key THEN <<key, counts[i][2] + score>>
             ELSE counts[i]]
    ELSE Append(counts, <<key, 0 + score>>)

\* the inner loop of query over the values of a key
RECURSIVE values_loop(_, _, _, _, _)
values_loop(counts, key, values, start_year, end_year) ==
    IF values = <<>> THEN counts
    ELSE LET value == Head(values)
         IN  values_loop(IF start_year <= value[1] /\ value[1] <= end_year
                         THEN add_score(counts, key, value[2])
                         ELSE counts,
                         key, Tail(values), start_year, end_year)

\* the outer loop of query over word2top.items()
RECURSIVE items_loop(_, _, _, _)
items_loop(counts, items, start_year, end_year) ==
    IF items = <<>> THEN counts
    ELSE items_loop(values_loop(counts, Head(items).word, Head(items).values,
                                start_year, end_year),
                    Tail(items), start_year, end_year)

\* a variant of the sort key that ignores the totals
key_lt_word(x, y) == str_lt(x[1], y[1])

\* the order of the keys (-x[1], x[0]) of two items x, y
key_lt(x, y) ==
    IF -x[2] # -y[2] THEN -x[2] < -y[2] ELSE str_lt(x[1], y[1])

\* sorted(answer.items(), key=lambda x: (-x[1], x[0])); the sort is stable
RECURSIVE sorted_items(_)
sorted_items(items) ==
    IF items = <<>> THEN <<>>
    ELSE LET rest == sorted_items(SubSeq(items, 1, Len(items) - 1))
             x == items[Len(items)]
             index == Cardinality({i \in 1..Len(rest) : ~key_lt(x, rest[i])})
         IN  SubSeq(rest, 1, index) \o <<x>>
                 \o SubSeq(rest, index + 1, Len(rest))

\* answer[:top_n]
slice_to(counts, top_n) ==
    LET stop == IF top_n < 0 THEN Len(counts) + top_n ELSE top_n
    IN  SubSeq(counts, 1, IF stop < 0 THEN 0
                          ELSE IF stop > Len(counts) THEN Len(counts)
                          ELSE stop)

\* StackoverflowAnalytics.query(start_year, end_year, top_n)
analytics_query(items, start_year, end_year, top_n) ==
    LET counts == sorted_items(items_loop(<<>>, items, start_year, end_year))
    IN  [start |-> start_year, end |-> end_year,
         top |-> slice_to(counts, top_n)]

\* build_analitycs has made word2top
InitAnalytics ==
    /\ documents = <<>>
    /\ term2doc = <<>>
    /\ pc = "built"
    /\ run = 1 /\ previous = <<>> /\ di = 0 /\ pending = {} /\ word = <<>>
    /\ file = <<>> /\ cut = 0 /\ loaded = NoMapping
    /\ words = <<>> /\ answer = <<>>
    /\ calls = <<>> /\ compared = <<>> /\ bank = <<>> /\ contained = <<>>
    /\ response = <<>> /\ inflight = <<>> /\ top = <<>> /\ variant = <<>>
    /\ word2top \in Word2Tops

\* a call of query
QueryAnalytics ==
    /\ pc = "built"
    /\ \E start_year \in Years, end_year \in Years, top_n \in TopNs :
        top' = [start_year |-> start_year, end_year |-> end_year,
                top_n |-> top_n,
                answer |-> analytics_query(word2top, start_year, end_year,
                                           top_n)]
    /\ UNCHANGED <<documents, term2doc, pc, run, previous, di, pending, word,
                   file, cut, loaded, words, answer, calls, compared, bank,
                   contained, response, inflight, word2top, variant>>

NextAnalytics == QueryAnalytics

SpecAnalytics == InitAnalytics /\ [][NextAnalytics]_vars

\* the entries of a word that fall in the years asked for
InRange(values) ==
    {i \in 1..Len(values) :
        top.start_year <= values[i][1] /\ values[i][1] <= top.end_year}

\* the sum of the scores of the entries at the given positions
RECURSIVE SumScores(_, _)
SumScores(values, positions) ==
    IF positions = {} THEN 0
    ELSE LET i == CHOOSE i \in positions : TRUE
         IN  values[i][2] + SumScores(values, positions \ {i})

\* the pairs [word, total] of the words with an entry in the range
Qualifying ==
    {<<word2top[k].word,
       SumScores(word2top[k].values, InRange(word2top[k].values))>> :
        k \in {k \in 1..Len(word2top) : InRange(word2top[k].values) # {}}}

\* x comes before y: a greater total, or the same total and a lesser word
Before(x, y) == x[2] > y[2] \/ (x[2] = y[2] /\ str_lt(x[1], y[1]))

\* C22: query(start, end, n), n >= 0, returns as 'top' the first n entries of
\* the list of [word, total] pairs, total the sum of the scores of the word's
\* entries with start <= year <= end, ordered by descending total and, for
\* equal totals, by ascending word; words with no entry in the range do not
\* appear, and when fewer than n words qualify all of them are returned.
C22_TopOfTotals ==
    (top # <<>> /\ top.top_n >= 0) =>
        LET t == top.answer.top
        IN  /\ top.answer.start = top.start_year
            /\ top.answer.end = top.end_year
            /\ Len(t) = IF Cardinality(Qualifying) < top.top_n
                        THEN Cardinality(Qualifying) ELSE top.top_n
            /\ \A i \in 1..Len(t) : t[i] \in Qualifying
            /\ \A i, j \in 1..Len(t) : i < j => Before(t[i], t[j])
            /\ \A x \in Qualifying :
                (\A i \in 1..Len(t) : t[i] # x) =>
                    \A i \in 1..Len(t) : Before(t[i], x)

\* a query for one entry of two words with equal totals, one of them summed
\* over two entries: the lesser word is returned though it was inserted last
C22_Witness ==
    /\ top # <<>> /\ top.top_n = 1
    /\ Len(word2top) = 2
    /\ str_lt(word2top[2].word, word2top[1].word)
    /\ Cardinality(InRange(word2top[2].values)) = 2
    /\ Cardinality(Qualifying) = 2
    /\ \A x, y \in Qualifying : x[2] = y[2]
    /\ top.answer.top[1][1] = word2top[2].word

----------------------------------------------------------------------------
(* The copies of the index: InvertedIndex.query of the KHUBBATULIN HW2
   module beside the one of the Hubbatulin HW1 module. *)

\* the loop "for word in words" of the KHUBBATULIN HW2 copy: a word that is
\* not a key is passed over (continue)
RECURSIVE khubbatulin_query_loop(_, _, _, _)
khubbatulin_query_loop(m, ws, doc_id, first) ==
    IF ws = <<>> THEN doc_id
    ELSE IF ~Has(m, Head(ws))
    THEN khubbatulin_query_loop(m, Tail(ws), doc_id, first)
    ELSE IF first
    THEN khubbatulin_query_loop(m, Tail(ws),
                                doc_id \cup Range(Get(m, Head(ws))), FALSE)
    ELSE khubbatulin_query_loop(m, Tail(ws),
                                intersection_update(doc_id, Get(m, Head(ws))),
                                FALSE)

\* list(doc_id): the elements of the set in the order the set iterates them,
\* which may be any order
list(S) == {s \in [1..Cardinality(S) -> S] : Range(s) = S}

\* InvertedIndex.query(words) of the KHUBBATULIN HW2 copy: the lists it may
\* return
khubbatulin_query(m, ws) == list(khubbatulin_query_loop(m, ws, {}, TRUE))

\* the two copies are asked for the same words on the same mapping
QueryCopies ==
    /\ pc = "ready"
    /\ \E ws \in WordLists(QueryTerms) :
        /\ words' = ws
        /\ answer' = query(term2doc, ws)
        /\ variant' \in khubbatulin_query(term2doc, ws)
    /\ pc' = "queried"
    /\ UNCHANGED <<documents, term2doc, run, previous, di, pending, word, file,
                   cut, loaded, calls, compared, bank, contained, response,
                   inflight, word2top, top>>

NextCopies == QueryCopies

SpecCopies == InitQuery /\ [][NextCopies]_vars

\* C23: for every postings mapping and every list of terms, query of the
\* KHUBBATULIN HW2 module returns the same set of document ids as query of
\* the Hubbatulin HW1 module, in particular when the list mixes present and
\* absent terms.
C23_SameMissingTermPolicy ==
    pc = "queried" => Range(variant) = Range(answer)

----------------------------------------------------------------------------
(* InvertedIndex.query: the empty list of terms, and the order and the
   repetitions of the terms. *)

\* C25: query([]) with an empty list of terms returns the empty list on
\* every index, including an index that holds documents.
C25_EmptyQuery ==
    (pc = "queried" /\ words = <<>>) => answer = <<>>

\* the empty list was asked of an index with two terms that share a document
C25_Witness ==
    /\ pc = "queried" /\ words = <<>>
    /\ Len(term2doc) = 2
    /\ Range(term2doc[1].docs) \cap Range(term2doc[2].docs) # {}

\* C27: the result of query depends only on the set of terms asked for: two
\* lists that hold the same terms in another order or with other repetitions
\* give the same result list.
C27_OrderAndRepetition ==
    pc = "queried" =>
        \A ws \in WordLists(QueryTerms) :
            Range(ws) = Range(words) => query(term2doc, ws) = answer

\* two different present terms were asked for, whose lists differ and share
\* an id: the same terms in the other order are another list
C27_Witness ==
    /\ pc = "queried" /\ Len(words) = 2 /\ AllPresent
    /\ words[1] # words[2]
    /\ Range(Get(term2doc, words[1])) # Range(Get(term2doc, words[2]))
    /\ answer # <<>>
    /\ <<words[2], words[1]>> \in WordLists(QueryTerms)

----------------------------------------------------------------------------
(* StructPolicy.load of a dumped file followed by other bytes. *)

\* the most bytes that follow the dumped file
MaxTrailing == 2

\* the bytes that may follow: zeros, a count of one, a letter, 0xFF
TrailingBytes == {0, 1, 97, 255}

\* bytes are written after the end of the dumped file
AppendBytes ==
    /\ pc = "dumped"
    /\ \E n \in 1..MaxTrailing : \E extra \in [1..n -> TrailingBytes] :
        file' = file \o extra
    /\ pc' = "extended"
    /\ UNCHANGED <<documents, term2doc, run, previous, di, pending, word, cut,
                   loaded, words, answer, others>>

NextTrailing ==
    \/ DumpIndex
    \/ AppendBytes
    \/ LoadIndex

SpecTrailing == InitCodec /\ [][NextTrailing]_vars

\* the file is the dumped file of term2doc followed by at least one byte
Extended ==
    LET written == dump(term2doc)
    IN  /\ written.ok
        /\ Len(file) > Len(written.bytes)
        /\ SubSeq(file, 1, Len(written.bytes)) = written.bytes

\* C28: for every valid dumped file followed by any extra trailing bytes,
\* load raises no error and returns the same mapping as for the file without
\* the trailing bytes.
C28_TrailingBytesIgnored ==
    (pc \in {"loaded", "load_failed"} /\ Extended) =>
        /\ pc = "loaded"
        /\ loaded = load(dump(term2doc).bytes)

\* a file of two terms followed by bytes that read as the start of one more
\* entry was loaded
C28_Witness ==
    /\ pc = "loaded" /\ Extended
    /\ Len(term2doc) = 2
    /\ Len(file) = Len(dump(term2doc).bytes) + 2
    /\ file[Len(file) - 1] = 0 /\ file[Len(file)] = 1
    /\ Len(loaded.mapping) = 2

----------------------------------------------------------------------------
(* The effect of InvertedIndex.query on the mapping of a built index and of
   a loaded index. *)

\* the mapping after the loop "for word in words" looked its words up, as
\* far as the first word that is not a key
RECURSIVE looked_up(_, _)
looked_up(m, ws) ==
    IF ws = <<>> THEN m
    ELSE IF ~Has(m, Head(ws)) THEN lookup(m, Head(ws))
    ELSE looked_up(lookup(m, Head(ws)), Tail(ws))

\* InvertedIndex.query on the index that build_inverted_index made
QueryBuilt ==
    /\ pc \in {"ready", "queried"}
    /\ \E ws \in WordLists(BuiltTerms) :
        /\ words' = ws
        /\ answer' = query(term2doc, ws)
        /\ term2doc' = looked_up(term2doc, ws)
    /\ pc' = "queried"
    /\ UNCHANGED <<documents, run, previous, di, pending, word, file, cut,
                   loaded, others>>

\* InvertedIndex.query on the index that load returned
QueryLoaded ==
    /\ pc \in {"loaded", "loaded_queried"}
    /\ \E ws \in WordLists(BuiltTerms) :
        /\ words' = ws
        /\ answer' = query(loaded.mapping, ws)
        /\ loaded' = [loaded EXCEPT !.mapping = looked_up(loaded.mapping, ws)]
    /\ pc' = "loaded_queried"
    /\ UNCHANGED <<documents, term2doc, run, previous, di, pending, word,
                   file, cut, others>>

NextFrame ==
    \/ QueryBuilt
    \/ DumpIndex
    \/ LoadIndex
    \/ QueryLoaded

SpecFrame == InitCalls /\ [][NextFrame]_vars

\* C24: once an index has been populated by build_inverted_index or by load,
\* no query changes its postings mapping: after any query, with present or
\* absent terms, term2doc has the same keys and the same id lists as before.
C24_QueryFrame ==
    [][pc' \in {"queried", "loaded_queried"} =>
        term2doc' = term2doc /\ loaded' = loaded]_vars

\* a loaded index whose first term has a descending list was asked for that
\* term and then for a term it does not hold
C24_Witness ==
    /\ pc = "loaded_queried"
    /\ Len(loaded.mapping) = 1
    /\ Len(loaded.mapping[1].docs) = 2
    /\ loaded.mapping[1].docs[1] > loaded.mapping[1].docs[2]
    /\ Len(words) = 2
    /\ words[1] = loaded.mapping[1].term
    /\ ~Has(loaded.mapping, words[2])
    /\ answer = <<>>

====
